---- MODULE Spec2Model ----
(***************************************************************************)
(* The research pipeline of backend/agents/orchestrator.py: run_cycle      *)
(* repeats _run_once, which calls six agents in a fixed order and writes   *)
(* every output to the MemoryManager (backend/utils/vector_memory.py).     *)
(*                                                                         *)
(* Python values are modelled as follows: a dict is a TLA+ record (a       *)
(* function on strings), so `k in d` is k \in DOMAIN d; a list that can    *)
(* stand where a dict can also stand is wrapped as [py_list |-> <<..>>];   *)
(* None as a path is NoPath.  Remote capabilities, the file system and     *)
(* injected stage faults are the environment: every call to them picks     *)
(* one of the outcomes the code distinguishes.                             *)
(***************************************************************************)
EXTENDS Integers, Sequences, FiniteSets, TLC

\* Largest `iterations` argument given to run_cycle.
MaxIter == 3

\* Largest number of non-nominal environment conditions (a critic built
\* without its LLM, exceptions, malformed or empty responses, failed file
\* operations) in one run.
MaxFaults == 2

VARIABLES
    pc,                 \* position of the caller in run_cycle / _run_once
    iterations,         \* the argument of run_cycle
    i,                  \* the loop variable of run_cycle (0-based)
    run_summary,        \* the local run_summary of run_cycle
    summary,            \* the local summary of _run_once
    structured_memory,  \* MemoryManager.structured_memory
    memory_file,        \* backend/memory_store/structured_memory.json
    disk,               \* artifacts under backend/results
    summary_file,       \* backend/results/run_summary.json
    log,                \* history: calls, returns, raises and store writes
    faults,             \* non-nominal environment conditions so far
    llm,                \* CriticAgent.llm is set (the capability is available)
    call                \* a direct call of one method: its arguments and result

vars == <<pc, iterations, i, run_summary, summary, structured_memory,
          memory_file, disk, summary_file, log, faults, llm, call>>

----------------------------------------------------------------------------
\* Python dicts

EmptyDict == [k \in {} |-> 0]

Put(d, k, v) == [x \in DOMAIN d \cup {k} |-> IF x = k THEN v ELSE d[x]]

Get(d, k, default) == IF k \in DOMAIN d THEN d[k] ELSE default

PyList(s) == [py_list |-> s]

IsPyList(v) == DOMAIN v = {"py_list"}

Stages == <<"domain", "questions", "data", "experiment", "critique", "paper">>

StageSet == {Stages[n] : n \in 1..Len(Stages)}

StageIndex(s) == CHOOSE n \in 1..Len(Stages) : Stages[n] = s

\* The key of _run_once's summary that holds the output stored under key s.
SummaryKey(s) ==
    CASE s = "data" -> "data_info"
      [] s = "experiment" -> "experiment_results"
      [] OTHER -> s

\* An outcome of a call: it returns value, or raises with message value.
Return(v, c) == [kind |-> "return", value |-> v, cost |-> c]

Raise(msg, c) == [kind |-> "raise", value |-> msg, cost |-> c]

----------------------------------------------------------------------------
\* MemoryManager

\* add as dict.setdefault: an entry already present is kept.
add_setdefault(mem, key, value) ==
    IF key \in DOMAIN mem THEN mem ELSE Put(mem, key, value)

\* add that, replacing an entry, forgets the other keys.
add_forgetful(mem, key, value) ==
    IF key \in DOMAIN mem THEN Put(EmptyDict, key, value)
    ELSE Put(mem, key, value)

\* add that starts a clean store with every domain record.
add_fresh(mem, key, value) ==
    IF key = "domain" THEN Put(EmptyDict, key, value) ELSE Put(mem, key, value)

\* add that keeps the entry it has when the new value is an error record.
add_unless_error(mem, key, value) ==
    IF key \in DOMAIN mem /\ "error" \in DOMAIN value THEN mem
    ELSE Put(mem, key, value)

\* self.structured_memory[key] = value
add(mem, key, value) == Put(mem, key, value)

\* open(..., 'w') and json.dump of the whole mapping; a failure is printed
\* and swallowed, and the file keeps what it held.  mem is the mapping as
\* json.load reads it back.
_save_structured(file, mem, ok) ==
    IF ok THEN [exists |-> TRUE, content |-> mem] ELSE file

get(mem, key) == Get(mem, key, [none |-> TRUE])

\* add_summary(text, metadata): without a vector store it returns at once;
\* add_texts storing the note or raising, the exception is printed and
\* swallowed.  notes are the texts the vector store holds.
add_summary(vectorstore, notes, text, stage, ok) ==
    IF ~vectorstore THEN notes
    ELSE IF ok THEN Append(notes, [text |-> text, stage |-> stage])
    ELSE notes

\* Whether the write of the file succeeds: nominally yes.
SaveOutcomes == {[ok |-> TRUE, cost |-> 0], [ok |-> FALSE, cost |-> 1]}

\* A store that is never loaded.
_load_structured_never(file, ok) == EmptyDict

\* _load_structured on a new MemoryManager: the mapping of the file when it
\* exists and json.load succeeds, else the empty mapping of __init__.
_load_structured(file, ok) ==
    IF file.exists /\ ok /\ file.content # [py_invalid |-> TRUE]
    THEN file.content ELSE EmptyDict

----------------------------------------------------------------------------
\* DomainScoutAgent

DomainFull == [domain_name |-> "Quantum Sensing", description |-> "d"]

\* What _extract_json returns when neither parse succeeds.
DomainParseFailure == [error |-> "JSON parsing failed", raw_output |-> "raw"]

\* A JSON object of the model's own making, without domain_name.
DomainNoName == [description |-> "d"]

\* search.run and llm.invoke are called outside any try; a response that is
\* JSON but no object makes parsed.get raise.
discover_domain ==
    { Return(DomainFull, 0),
      Return(DomainParseFailure, 1),
      Return(DomainNoName, 1),
      Raise("domain capability failed", 1) }

----------------------------------------------------------------------------
\* QuestionGeneratorAgent

QuestionList ==
    PyList(<<[question |-> "q1", reasoning |-> "r1", potential_impact |-> "p1"],
             [question |-> "q2", reasoning |-> "r2", potential_impact |-> "p2"]>>)

QuestionParseFailure ==
    PyList(<<[error |-> "JSON parsing failed", raw_output |-> "raw"]>>)

generate_questions(domain_info) ==
    IF domain_info = EmptyDict \/ "domain_name" \notin DOMAIN domain_info
    THEN { Return([error |-> "Missing or invalid domain_info"], 0) }
    ELSE { Return(QuestionList, 0),
           Return([error |-> "LLM call failed", details |-> "e"], 1),
           Return(QuestionParseFailure, 1),
           \* a response that is a JSON scalar: len(parsed_data) raises
           Raise("object of type 'int' has no len()", 1) }

----------------------------------------------------------------------------
\* DataFinderAgent

Dataset ==
    [source_url |-> "u", file_path |-> "cleaned_u.csv", rows |-> 5,
     columns |-> 2, column_names |-> <<"a", "b">>, size_mb |-> 1]

find_data_result(datasets) ==
    [agent_name |-> "DataFinderAgent",
     status |-> IF datasets # <<>> THEN "success" ELSE "no_data_found",
     domain |-> "Quantum Sensing",
     datasets_found |-> Len(datasets),
     datasets |-> datasets,
     summary |-> IF datasets # <<>> THEN "Found 1 valid datasets"
                 ELSE "Found 0 valid datasets"]

\* The searches and downloads catch their own exceptions; only an injected
\* fault makes the call raise.
find_data ==
    { Return(find_data_result(<<Dataset>>), 0),
      Return(find_data_result(<<>>), 1),
      Raise("injected fault", 1) }

DataFinderFailed == [metadata |-> <<>>, summary |-> "DataFinder failed."]

\* The try block of _run_once around find_data, with the subscript
\* domain_info["domain_name"] evaluated inside it.
data_stage(domain_info) ==
    IF "domain_name" \notin DOMAIN domain_info
    THEN { Raise("'domain_name'", 0) }
    ELSE find_data

----------------------------------------------------------------------------
\* ExperimentDesignerAgent

NoPath == "None"

VisFile == "backend/results/experiments/visualization_1234.png"

DefaultChart == "backend/results/experiments/default_chart.png"

DesignFile == "backend/results/experiments/final_experiment_design.json"

\* analyze_datasets making one summary per entry of find_data's datasets
\* list, the entry's rows for its images.
analyze_datasets_of_found(data_info) ==
    LET datasets == Get(data_info, "datasets", <<>>)
    IN  [n \in 1..Len(datasets) |->
            [dataset_name |-> datasets[n].file_path,
             num_images |-> datasets[n].rows,
             average_resolution |-> [py_tuple |-> <<4096, 4096>>],
             sample_visualization |-> datasets[n].file_path]]

\* One summary per metadata entry of type non_tabular_zip; find_data's
\* record has no metadata key, and the tuple average_resolution is a Python
\* tuple.
analyze_datasets(data_info) ==
    LET metadata == SelectSeq(Get(data_info, "metadata", <<>>),
                              LAMBDA m : m.output.type = "non_tabular_zip")
    IN  [n \in 1..Len(metadata) |->
            [dataset_name |-> metadata[n].output.path,
             num_images |-> Len(metadata[n].output.files_inside),
             average_resolution |-> [py_tuple |-> <<4096, 4096>>],
             sample_visualization |-> metadata[n].output.path]]

ChartSpec(labels) ==
    [type |-> "bar_chart",
     data |-> [labels |-> labels, values |-> IF labels = <<>> THEN <<>> ELSE <<10, 20, 30>>],
     description |-> "chart"]

ExperimentDesign ==
    [methods |-> <<[name |-> "Image Analysis"]>>,
     metrics |-> <<[name |-> "Accuracy"]>>,
     tools |-> <<[name |-> "TensorFlow"]>>]

ProposalFull ==
    [hypotheses |-> <<"H1">>, experiment_design |-> ExperimentDesign,
     visualization_to_generate |-> ChartSpec(<<"A", "B", "C">>)]

\* A proposal whose chart specification has no labels and no values.
ProposalEmptyChart ==
    [hypotheses |-> <<"H1">>, experiment_design |-> ExperimentDesign,
     visualization_to_generate |-> ChartSpec(<<>>)]

ProposalParseFailure ==
    [error |-> "Failed to parse LLM output", raw_output |-> "raw"]

\* llm.invoke is called outside any try.
propose_experiment ==
    { Return(ProposalFull, 0),
      Return(ProposalEmptyChart, 1),
      Return(ProposalParseFailure, 1),
      Raise("proposal capability failed", 1) }

\* The remote request for a synthetic dataset: the labels and values of the
\* answer, which may be empty lists; when the request or the parse fails,
\* the constant labels A, B, C.
_generate_contextual_fallback ==
    { [spec |-> ChartSpec(<<"L1", "L2", "L3">>), cost |-> 0,
       trace |-> <<"remote:contextual">>],
      [spec |-> ChartSpec(<<>>), cost |-> 1,
       trace |-> <<"remote:contextual">>],
      [spec |-> ChartSpec(<<"A", "B", "C">>), cost |-> 1,
       trace |-> <<"remote:contextual", "contextual failed">>] }

\* plt.subplots .. plt.savefig inside the try of
\* _generate_visualization_from_llm.
RenderOutcomes == {[ok |-> TRUE, cost |-> 0], [ok |-> FALSE, cost |-> 1]}

\* _generate_visualization_from_llm asking for the synthetic dataset
\* whatever the chart specification holds.
_generate_visualization_always_contextual(vis_spec, d) ==
    { [path |-> IF r.ok THEN VisFile ELSE NoPath,
       disk |-> IF r.ok THEN d \cup {VisFile} ELSE d,
       cost |-> c.cost + r.cost,
       trace |-> c.trace \o (IF r.ok THEN <<"render">> ELSE <<"render failed">>)]
      : c \in _generate_contextual_fallback, r \in RenderOutcomes }

\* The outcomes of _generate_visualization_from_llm(vis_spec) on disk d: the
\* path of the chart written, or NoPath (None) when anything raised.
_generate_visualization_from_llm(vis_spec, d) ==
    LET missing == vis_spec.data.labels = <<>> \/ vis_spec.data.values = <<>>
        data == IF missing THEN _generate_contextual_fallback
                ELSE {[spec |-> vis_spec, cost |-> 0, trace |-> <<>>]}
    IN  { [path |-> IF r.ok THEN VisFile ELSE NoPath,
           disk |-> IF r.ok THEN d \cup {VisFile} ELSE d,
           cost |-> c.cost + r.cost,
           trace |-> c.trace \o (IF r.ok THEN <<"render">> ELSE <<"render failed">>)]
          : c \in data, r \in RenderOutcomes }

\* Lines 234-256 of design_experiment: the placeholder chart when no chart
\* exists, then the record and its dump to final_experiment_design.json.
\* plt.savefig of the placeholder and open of the json file are outside any
\* try.
finish_design(summaries, llm_result, v) ==
    LET need == v.path = NoPath \/ v.path \notin v.disk
        create == need /\ DefaultChart \notin v.disk
        path == IF need THEN DefaultChart ELSE v.path
        output == [dataset_analysis |-> summaries,
                   experiment_proposal |-> llm_result,
                   visualization_path |-> path]
        made == IF create THEN v.disk \cup {DefaultChart} ELSE v.disk
        ptrace == v.trace \o (IF create THEN <<"placeholder">> ELSE <<>>)
    IN  (IF create
         THEN {[kind |-> "raise", value |-> "placeholder not written",
                cost |-> v.cost + 1, disk |-> v.disk,
                trace |-> v.trace \o <<"placeholder failed">>]}
         ELSE {})
        \cup
        {[kind |-> "return", value |-> output, cost |-> v.cost,
          disk |-> made \cup {DesignFile}, trace |-> ptrace],
         [kind |-> "raise", value |-> "design file not written",
          cost |-> v.cost + 1, disk |-> made, trace |-> ptrace]}

\* The outcomes of design_experiment on disk d.
design_experiment(domain_info, data_info, d) ==
    LET summaries == analyze_datasets(data_info)
        after(p) ==
            IF "visualization_to_generate" \in DOMAIN p.value
            THEN { [x EXCEPT !.cost = @ + p.cost,
                             !.trace = <<"remote:proposal">> \o @]
                   : x \in _generate_visualization_from_llm(
                               p.value.visualization_to_generate, d) }
            ELSE UNION {
                   { [x EXCEPT !.cost = @ + p.cost + c.cost,
                               !.trace = <<"remote:proposal">> \o c.trace \o @]
                     : x \in _generate_visualization_from_llm(c.spec, d) }
                   : c \in _generate_contextual_fallback }
    IN  UNION {
          IF p.kind = "raise"
          THEN {[kind |-> "raise", value |-> p.value, cost |-> p.cost,
                 disk |-> d, trace |-> <<"remote:proposal">>]}
          ELSE UNION { finish_design(summaries, p.value, v) : v \in after(p) }
          : p \in propose_experiment }

----------------------------------------------------------------------------
\* CriticAgent

\* JSON values other than objects: an array is [py_list |-> <<..>>] where an
\* object can also stand, a number is [py_int |-> n].
PyInt(n) == [py_int |-> n]

IsPyInt(v) == DOMAIN v = {"py_int"}

\* A Python str is held by what json.loads makes of it: Str(v) is the JSON
\* text of v, Text(t) a text that is no JSON.
Str(v) == [py_str |-> [json |-> TRUE, body |-> v]]

Text(t) == [py_str |-> [json |-> FALSE, text |-> t]]

IsStr(v) == DOMAIN v = {"py_str"}

None == [py_none |-> TRUE]

IsNone(v) == DOMAIN v = {"py_none"}

IsPyTuple(v) == DOMAIN v = {"py_tuple"}

IsDict(v) ==
    ~IsPyList(v) /\ ~IsPyInt(v) /\ ~IsStr(v) /\ ~IsNone(v) /\ ~IsPyTuple(v)

\* A response of the remote capability that parses and has every field.
LLMCritique ==
    [strengths |-> <<"clear plan">>, weaknesses |-> <<"few controls">>,
     risks |-> <<>>, recommended_fixes |-> <<"add controls">>,
     critique_score |-> 800, iterate |-> FALSE,
     suggested_next_steps |-> <<"run baseline">>, notes |-> "n"]

\* The keys of a dict d other than k.
Without(d, k) == [x \in DOMAIN d \ {k} |-> d[x]]

\* What llm.invoke does in _llm_critique: it raises, or it answers with a
\* content that is the JSON text of body, alone or inside prose, or that is
\* no JSON at all.
Invoked(body, prose) == [kind |-> "content", json |-> TRUE, body |-> body, prose |-> prose]

InvokeRaises == [kind |-> "raise"]

NotJson == [kind |-> "content", json |-> FALSE]

CritiqueResponses ==
    { Invoked(LLMCritique, FALSE),
      Invoked(LLMCritique, TRUE),
      Invoked(Without(LLMCritique, "risks"), FALSE),
      Invoked(Without(LLMCritique, "notes"), TRUE),
      Invoked(Without(LLMCritique, "iterate"), FALSE),
      Invoked(Without(LLMCritique, "critique_score"), TRUE),
      Invoked(Put(LLMCritique, "confidence", "high"), FALSE),
      Invoked([LLMCritique EXCEPT !.critique_score = 1500], FALSE),
      Invoked(EmptyDict, FALSE),
      Invoked(PyList(<<"strengths", "weaknesses">>), FALSE),
      Invoked(PyList(<<"strengths", "weaknesses">>), TRUE),
      Invoked(PyInt(42), FALSE),
      InvokeRaises,
      NotJson }

\* Lines 60-107: no capability raises, and so does the prompt's
\* experiment_result.get on what is no dict; json.loads of the content, and
\* when that raises json.loads of what re.search(r"\{.*\}") finds in it,
\* which is the object of a content that holds one inside prose.
_llm_critique(available, response, experiment_result) ==
    IF ~available THEN Raise("LLM not available", 0)
    ELSE IF ~IsDict(experiment_result) THEN Raise("object has no attribute 'get'", 0)
    ELSE IF response.kind = "raise" THEN Raise("invoke failed", 0)
    ELSE IF ~response.json THEN Raise("JSONDecodeError", 0)
    ELSE IF ~response.prose THEN Return(response.body, 0)
    ELSE IF IsDict(response.body) THEN Return(response.body, 0)
    ELSE Raise("JSONDecodeError", 0)

\* The keys critique looks for in the remote result (line 205).
ValidatedKeys ==
    {"strengths", "weaknesses", "recommended_fixes", "critique_score", "iterate"}

\* Lines 205-207, `k not in result` for each validated key: key membership
\* in a dict, element membership in a list, TypeError on a number.
Validated(result) ==
    IF IsPyInt(result) THEN FALSE
    ELSE IF IsPyList(result)
    THEN \A k \in ValidatedKeys :
             \E n \in 1..Len(result.py_list) : result.py_list[n] = k
    ELSE ValidatedKeys \subseteq DOMAIN result

\* str.lower() on the tool names that occur.
lower(name) ==
    CASE name = "TensorFlow" -> "tensorflow"
      [] name = "PyTorch" -> "pytorch"
      [] name = "ImageJ" -> "imagej"
      [] OTHER -> name

\* Whether _heuristic_critique raises: .get is called on experiment_result,
\* on the proposal (line 152, outside the isinstance guard), on
\* experiment_design and on the dataset and tool entries.  any(...) stops
\* at the first entry that makes it true, so an entry that is no mapping
\* raises only when no dataset of fewer than 10 images, or no tool named
\* tensorflow or pytorch, stands before it.
HeuristicRaises(experiment_result) ==
    \/ ~IsDict(experiment_result)
    \/ LET ds == Get(experiment_result, "dataset_analysis", <<>>)
           proposal == Get(experiment_result, "experiment_proposal", EmptyDict)
       IN  \/ \E n \in 1..Len(ds) :
                 /\ ~IsDict(ds[n])
                 /\ \A m \in 1..(n - 1) :
                       IsDict(ds[m]) /\ Get(ds[m], "num_images", 0) >= 10
           \/ ~IsDict(proposal)
           \/ LET design == Get(proposal, "experiment_design", EmptyDict)
              IN  \/ ~IsDict(design)
                  \/ LET tools == Get(design, "tools", <<>>)
                     IN  \E n \in 1..Len(tools) :
                            /\ ~IsDict(tools[n])
                            /\ \A m \in 1..(n - 1) :
                                  /\ IsDict(tools[m])
                                  /\ lower(Get(tools[m], "name", ""))
                                        \notin {"tensorflow", "pytorch"}

\* The score with the penalties as large as the bonuses.
score_full_penalties(methods, metrics, risks) ==
    LET raw == 500 + (IF methods # <<>> THEN 150 ELSE -150)
                   + (IF metrics # <<>> THEN 100 ELSE -100)
                   + (IF risks # <<>> THEN 0 ELSE 5)
    IN  IF raw < 0 THEN 0 ELSE IF raw > 1000 THEN 1000 ELSE raw

\* The score with 0.5 in the place of 0.05 for a record without risks.
score_larger_bonus(methods, metrics, risks) ==
    LET raw == 500 + (IF methods # <<>> THEN 150 ELSE -15)
                   + (IF metrics # <<>> THEN 100 ELSE -15)
                   + (IF risks # <<>> THEN 0 ELSE 50)
    IN  IF raw < 0 THEN 0 ELSE IF raw > 1000 THEN 1000 ELSE raw

\* Lines 173-177 and round(score, 3), in thousandths: 0.15 * -0.1 and
\* 0.1 * -0.15 are -15, 0.1 * 0.05 is 5, and the eight sums are exact to
\* three decimals.
score(methods, metrics, risks) ==
    LET raw == 500 + (IF methods # <<>> THEN 150 ELSE -15)
                   + (IF metrics # <<>> THEN 100 ELSE -15)
                   + (IF risks # <<>> THEN 0 ELSE 5)
    IN  IF raw < 0 THEN 0 ELSE IF raw > 1000 THEN 1000 ELSE raw

\* iterate with `and` in the place of `or`.
iterate_when_all(weaknesses, risks, s) ==
    weaknesses # <<>> /\ risks # <<>> /\ s < 800

\* Line 179: bool(weaknesses or risks or score < 0.8).
iterate(weaknesses, risks, s) ==
    weaknesses # <<>> \/ risks # <<>> \/ s < 800

\* fixes with the control/baseline fix added first.
fixes_baseline_first(metrics, small) ==
    <<"add a control group or baseline">>
    \o (IF metrics # <<>> THEN <<>> ELSE <<"define measurable metrics">>)
    \o (IF small THEN <<"aggregate or augment">> ELSE <<>>)

\* Lines 158-163: the recommended fixes; small is the condition of line
\* 160, the one of the small-sample risk of line 146.
fixes(metrics, small) ==
    (IF metrics # <<>> THEN <<>> ELSE <<"define measurable metrics">>)
    \o (IF small THEN <<"aggregate or augment">> ELSE <<>>)
    \o <<"add a control group or baseline">>

\* The record lines 115-190 build when nothing raises; critique_score is
\* held in thousandths.
HeuristicRecord(experiment_result) ==
    LET ds == Get(experiment_result, "dataset_analysis", <<>>)
        proposal == Get(experiment_result, "experiment_proposal", EmptyDict)
        design == Get(proposal, "experiment_design", EmptyDict)
        methods == Get(design, "methods", <<>>)
        metrics == Get(design, "metrics", <<>>)
        tools == Get(design, "tools", <<>>)
        small == \E n \in 1..Len(ds) : Get(ds[n], "num_images", 0) < 10
        toolkit == \E n \in 1..Len(tools) :
                       lower(Get(tools[n], "name", "")) \in {"tensorflow", "pytorch"}
        strengths ==
            (IF ds # <<>> THEN <<"real datasets", "datasets found">> ELSE <<>>)
            \o (IF methods # <<>> THEN <<"concrete methods">> ELSE <<>>)
            \o (IF metrics # <<>> THEN <<"metrics proposed">> ELSE <<>>)
            \o (IF toolkit THEN <<"robust ML toolkits">> ELSE <<>>)
        weaknesses ==
            (IF ds # <<>> THEN <<>> ELSE <<"No datasets available for analysis.">>)
            \o (IF methods # <<>> THEN <<>> ELSE <<"lacks concrete methods">>)
            \o (IF metrics # <<>> THEN <<>> ELSE <<"no evaluation metrics">>)
            \o (IF toolkit THEN <<>> ELSE <<"no mainstream ML toolset">>)
        risks ==
            (IF small THEN <<"small sample size">> ELSE <<>>)
            \o (IF metrics # <<>> THEN <<>> ELSE <<"no quantitative evaluation">>)
        s == score(methods, metrics, risks)
    IN  [strengths |-> strengths, weaknesses |-> weaknesses, risks |-> risks,
         recommended_fixes |-> fixes(metrics, small), critique_score |-> s,
         iterate |-> iterate(weaknesses, risks, s),
         suggested_next_steps |-> <<"run EDA", "baseline model", "augment">>,
         notes |-> "Used heuristic fallback critique (LLM not available or failed)."]

_heuristic_critique(experiment_result) ==
    IF HeuristicRaises(experiment_result)
    THEN Raise("object has no attribute 'get'", 0)
    ELSE Return(HeuristicRecord(experiment_result), 0)

\* The record of the outer except of critique (lines 221-230).
MinimalCritique(e) ==
    [strengths |-> <<>>, weaknesses |-> <<"Critic agent failed unexpectedly.">>,
     risks |-> <<>>, recommended_fixes |-> <<"Inspect logs.">>,
     critique_score |-> 0, iterate |-> TRUE,
     suggested_next_steps |-> <<"Check CriticAgent logs for exceptions.">>,
     notes |-> <<"Exception: ", e>>]

\* Whether critique returns the remote result: the capability is set, it
\* answers, the answer parses and has the five validated keys.
Primary(available, response, experiment_result) ==
    /\ available
    /\ _llm_critique(available, response, experiment_result).kind = "return"
    /\ Validated(_llm_critique(available, response, experiment_result).value)

\* critique without its outer try/except: what the heuristic raises, raises
\* from the call.
critique_unguarded(available, response, experiment_result) ==
    IF Primary(available, response, experiment_result)
    THEN _llm_critique(available, response, experiment_result).value
    ELSE LET h == _heuristic_critique(experiment_result)
         IN  IF h.kind = "raise" THEN h ELSE h.value

\* critique (lines 200-230): the remote result, else the heuristic, else,
\* when the heuristic raises, the record of the outer except.
critique(available, response, experiment_result) ==
    IF Primary(available, response, experiment_result)
    THEN _llm_critique(available, response, experiment_result).value
    ELSE LET h == _heuristic_critique(experiment_result)
         IN  IF h.kind = "raise" THEN MinimalCritique(h.value) ELSE h.value

----------------------------------------------------------------------------
\* PaperGeneratorAgent

MarkdownFile == "backend/results/final_paper/mini_research_paper.md"

HtmlFile == "backend/results/final_paper/mini_research_paper.html"

\* Lines 226-237 of generate_paper on a dict: the metadata key is set on the
\* object that was passed in.
normalize_data_info(data_info) ==
    IF "metadata" \in DOMAIN data_info THEN data_info
    ELSE Put(data_info, "metadata", <<>>)

\* Lines 239-260 of generate_paper on a dict: both keys are set on the object
\* that was passed in.
normalize_experiment_results(experiment_results) ==
    LET e1 == IF "experiment_proposal" \in DOMAIN experiment_results
              THEN experiment_results
              ELSE Put(experiment_results, "experiment_proposal", EmptyDict)
    IN  IF "dataset_analysis" \in DOMAIN e1 THEN e1
        ELSE Put(e1, "dataset_analysis", <<>>)

\* json.loads of a str.
json_loads(v) ==
    IF v.py_str.json THEN Return(v.py_str.body, 0) ELSE Raise("JSONDecodeError", 0)

\* str(value) of what is no str: the text of a number, of a list of numbers
\* and of an empty dict is JSON, repr's quotes and None are not.
str(v) ==
    IF IsPyInt(v) \/ v = EmptyDict THEN Str(v)
    ELSE IF IsPyList(v) /\ \A n \in 1..Len(v.py_list) : IsPyInt(v.py_list[n]) THEN Str(v)
    ELSE Text(<<"repr", v>>)

\* `if key not in v: v[key] = default` (lines 236-237, 257-260) on whatever
\* v has become: a dict gets the key; a list that does not hold the key, a
\* str, a number and None raise TypeError.
ensure_key(v, key, default) ==
    IF IsDict(v)
    THEN Return(IF key \in DOMAIN v THEN v ELSE Put(v, key, default), 0)
    ELSE IF IsPyList(v) /\ \E n \in 1..Len(v.py_list) : v.py_list[n] = Text(key)
    THEN Return(v, 0)
    ELSE Raise("TypeError", 0)

\* Lines 210-213.
normalize_domain(domain_info) ==
    IF IsStr(domain_info)
    THEN Return([domain_name |-> domain_info, description |-> Text("")], 0)
    ELSE IF ~IsDict(domain_info)
    THEN Return([domain_name |-> Text("Unknown Domain"),
                 description |-> str(domain_info)], 0)
    ELSE Return(domain_info, 0)

\* Lines 216-224.
normalize_questions(questions) ==
    IF IsStr(questions)
    THEN IF json_loads(questions).kind = "return"
         THEN json_loads(questions)
         ELSE Return(PyList(<<questions>>), 0)
    ELSE IF ~IsPyList(questions) THEN Return(PyList(<<str(questions)>>), 0)
    ELSE Return(questions, 0)

\* Lines 227-237.
normalize_data(data_info) ==
    LET coerced ==
            IF IsStr(data_info)
            THEN IF json_loads(data_info).kind = "return"
                 THEN json_loads(data_info).value
                 ELSE [summary |-> data_info, metadata |-> <<>>]
            ELSE IF ~IsDict(data_info)
            THEN [summary |-> str(data_info), metadata |-> <<>>]
            ELSE data_info
    IN  ensure_key(coerced, "metadata", <<>>)

\* Lines 240-260.
normalize_experiment(experiment_results) ==
    LET wrap(text) == [summary |-> text, experiment_proposal |-> EmptyDict,
                       dataset_analysis |-> <<>>]
        coerced ==
            IF IsStr(experiment_results)
            THEN IF json_loads(experiment_results).kind = "return"
                 THEN json_loads(experiment_results).value
                 ELSE wrap(experiment_results)
            ELSE IF ~IsDict(experiment_results)
            THEN wrap(str(experiment_results))
            ELSE experiment_results
        first == ensure_key(coerced, "experiment_proposal", EmptyDict)
    IN  IF first.kind = "raise" THEN first
        ELSE ensure_key(first.value, "dataset_analysis", <<>>)

\* Lines 263-275.
normalize_critique(c) ==
    IF IsStr(c)
    THEN IF json_loads(c).kind = "return"
         THEN json_loads(c)
         ELSE Return([notes |-> c, strengths |-> <<>>, weaknesses |-> <<>>,
                      risks |-> <<>>, recommended_fixes |-> <<>>], 0)
    ELSE IF ~IsDict(c) THEN Return([notes |-> str(c)], 0)
    ELSE Return(c, 0)

\* The five normalizations of generate_paper, by parameter.
Fields == {"domain_info", "questions", "data_info", "experiment_results", "critique"}

normalize(field, value) ==
    CASE field = "domain_info" -> normalize_domain(value)
      [] field = "questions" -> normalize_questions(value)
      [] field = "data_info" -> normalize_data(value)
      [] field = "experiment_results" -> normalize_experiment(value)
      [] field = "critique" -> normalize_critique(value)

PaperSuccess ==
    [agent_name |-> "PaperGeneratorAgent", status |-> "success",
     markdown |-> MarkdownFile, html |-> HtmlFile]

PaperError ==
    [agent_name |-> "PaperGeneratorAgent", status |-> "error",
     error |-> "paper not written"]

\* generate_paper without its try/except: what raises in the body raises
\* from the call.
generate_paper_unguarded(args, written) ==
    IF \E f \in Fields : normalize(f, args[f]).kind = "raise"
    THEN LET f == CHOOSE g \in Fields : normalize(g, args[g]).kind = "raise"
         IN  Raise(normalize(f, args[f]).value, 0)
    ELSE IF ~written THEN Raise("paper not written", 0)
    ELSE Return(PaperSuccess, 0)

\* generate_paper(domain_info, questions, data_info, experiment_results,
\* critique), args holding the five arguments: the whole body is inside
\* try/except Exception, so a normalization that raises, and _compose_markdown,
\* polish_paper or a file write that raises (written is FALSE), yield the
\* error record with str(e).
generate_paper(args, written) ==
    IF \E f \in Fields : normalize(f, args[f]).kind = "raise"
    THEN LET f == CHOOSE g \in Fields : normalize(g, args[g]).kind = "raise"
         IN  Return([agent_name |-> "PaperGeneratorAgent", status |-> "error",
                     error |-> normalize(f, args[f]).value], 0)
    ELSE IF ~written THEN Return(PaperError, 0)
    ELSE Return(PaperSuccess, 0)

\* The outcomes of generate_paper as _run_once calls it, on the dicts the
\* stages stored: the success record, the error record, and an injected
\* fault, the only way for the call to raise; `normalized` tells whether
\* the normalization ran.
paper_stage ==
    { [kind |-> "return", value |-> PaperSuccess, cost |-> 0, normalized |-> TRUE],
      [kind |-> "return", value |-> PaperError, cost |-> 1, normalized |-> TRUE],
      [kind |-> "raise", value |-> "injected fault", cost |-> 1, normalized |-> FALSE] }

----------------------------------------------------------------------------
\* Orchestrator

Event(kind, what) == <<kind, what, i + 1>>

Events(trace, what) == [n \in 1..Len(trace) |-> Event(trace[n], what)]

\* summary_text reading the description with a default.
summary_text_get(stage, value) ==
    CASE stage = "domain" -> Return(Get(value, "description", ""), 0)
      [] stage = "questions" -> Return(<<"str", value>>, 0)
      [] stage = "data" -> Return(Get(value, "summary", "Data discovery complete"), 0)
      [] stage = "experiment" -> Return("Experiment design completed.", 0)
      [] stage = "critique" -> Return("Critique completed.", 0)
      [] OTHER -> Return("Paper generation completed.", 0)

\* The text _run_once passes to add_summary after memory.add(stage, value):
\* the evaluation of the argument returns the text or raises.
summary_text(stage, value) ==
    CASE stage = "domain" ->
            IF "description" \in DOMAIN value THEN Return(value.description, 0)
            ELSE Raise("'description'", 0)
      [] stage = "questions" -> Return(<<"str", value>>, 0)
      [] stage = "data" -> Return(Get(value, "summary", "Data discovery complete"), 0)
      [] stage = "experiment" -> Return("Experiment design completed.", 0)
      [] stage = "critique" -> Return("Critique completed.", 0)
      [] OTHER -> Return("Paper generation completed.", 0)

\* Whether _run_once reads the arguments of the stage's call from the store
\* (memory.get, lines 136-140) or passes its local variables (lines 81, 92,
\* 106, 120).
FromStore(stage) == stage = "paper"

\* The keys of the records the stage's call is given.
InputKeys(stage) ==
    CASE stage = "questions" -> {"domain"}
      [] stage = "data" -> {"domain", "questions"}
      [] stage = "experiment" -> {"domain", "data"}
      [] stage = "critique" -> {"domain", "experiment"}
      [] stage = "paper" -> {"domain", "questions", "data", "experiment", "critique"}
      [] OTHER -> {}

\* argument looking a local up under the key of the store.
argument_by_store_key(stage, key, locals, mem) ==
    IF FromStore(stage) THEN Get(mem, key, [none |-> TRUE])
    ELSE Get(locals, key, [none |-> TRUE])

\* The argument the stage's call is given for the record of key: locals are
\* the local variables of _run_once, which summary holds under SummaryKey.
argument(stage, key, locals, mem) ==
    IF FromStore(stage) THEN Get(mem, key, [none |-> TRUE])
    ELSE locals[SummaryKey(key)]

\* The head of run_cycle's for loop once n iterations are over.
LoopPc(n) == IF n < iterations THEN "domain" ELSE "persist"

\* The except branch leaving the loop: the failed record, then no further
\* iteration.
IterationFailedBreak(msg) ==
    /\ run_summary' = [run_summary EXCEPT !.results =
           Append(@, [iteration |-> i + 1, status |-> "failed", error |-> msg])]
    /\ i' = i + 1
    /\ pc' = "persist"
    /\ summary' = EmptyDict

\* The except branch swallowing the exception: no record is appended.
IterationFailedDropsRecord(msg) ==
    /\ run_summary' = run_summary
    /\ i' = i + 1
    /\ pc' = LoopPc(i + 1)
    /\ summary' = EmptyDict

\* The except branch of run_cycle: the failed record, then the next
\* iteration.
IterationFailed(msg) ==
    /\ run_summary' = [run_summary EXCEPT !.results =
           Append(@, [iteration |-> i + 1, status |-> "failed", error |-> msg])]
    /\ i' = i + 1
    /\ pc' = LoopPc(i + 1)
    /\ summary' = EmptyDict

\* The try branch not advancing the loop variable: the iteration runs again.
IterationSucceededRepeats(result) ==
    /\ run_summary' = [run_summary EXCEPT !.results =
           Append(@, [iteration |-> i + 1, status |-> "success"] @@ result)]
    /\ i' = i
    /\ pc' = IF Len(run_summary.results) + 1 < iterations THEN "domain" ELSE "persist"
    /\ summary' = EmptyDict

\* The try branch of run_cycle once _run_once has returned result.
IterationSucceeded(result) ==
    /\ run_summary' = [run_summary EXCEPT !.results =
           Append(@, [iteration |-> i + 1, status |-> "success"] @@ result)]
    /\ i' = i + 1
    /\ pc' = LoopPc(i + 1)
    /\ summary' = EmptyDict

\* memory.add that sets the entry only once the file is written.
MemoryAddAfterSave(key, value, ok) ==
    /\ structured_memory' = IF ok THEN add(structured_memory, key, value)
                            ELSE structured_memory
    /\ memory_file' = _save_structured(memory_file,
                                       add(structured_memory, key, value), ok)

\* memory.add(key, value): the entry, then the file.
MemoryAdd(key, value, ok) ==
    /\ structured_memory' = add(structured_memory, key, value)
    /\ memory_file' = _save_structured(memory_file,
                                       add(structured_memory, key, value), ok)

\* No method is being called directly.
NoCall == [fn |-> "none"]

\* Orchestrator.__init__: the agents and an empty store.
Constructed ==
    /\ pc = "constructed"
    /\ iterations = 0
    /\ i = 0
    /\ run_summary = [results |-> <<>>]
    /\ summary = EmptyDict
    /\ structured_memory = EmptyDict
    /\ memory_file = [exists |-> FALSE, content |-> EmptyDict]
    /\ disk = {}
    /\ summary_file = [exists |-> FALSE, content |-> [results |-> <<>>], writes |-> 0]
    /\ log = <<>>
    /\ llm \in BOOLEAN
    /\ faults = IF llm THEN 0 ELSE 1

Init == Constructed /\ call = NoCall

\* The call run_cycle(n).
run_cycle ==
    /\ pc = "constructed"
    /\ \E n \in 0..MaxIter :
         /\ iterations' = n
         /\ pc' = IF 0 < n THEN "domain" ELSE "persist"
    /\ i' = 0
    /\ run_summary' = [results |-> <<>>]
    /\ summary' = EmptyDict
    /\ UNCHANGED <<structured_memory, memory_file, disk, summary_file, log,
                   faults, llm, call>>

\* STEP 1 of _run_once: no try around the call, and the subscript
\* domain_info["description"] follows memory.add.
DomainStage ==
    /\ pc = "domain"
    /\ \E o \in discover_domain, sv \in SaveOutcomes :
         IF o.kind = "raise"
         THEN /\ sv.ok
              /\ faults + o.cost <= MaxFaults
              /\ faults' = faults + o.cost
              /\ IterationFailed(o.value)
              /\ log' = log \o <<Event("call", "domain"), Event("raise", "domain")>>
              /\ UNCHANGED <<structured_memory, memory_file>>
         ELSE /\ faults + o.cost + sv.cost <= MaxFaults
              /\ faults' = faults + o.cost + sv.cost
              /\ MemoryAdd("domain", o.value, sv.ok)
              /\ log' = log \o <<Event("call", "domain"), Event("return", "domain"),
                                 Event("add", "domain")>>
              /\ IF summary_text("domain", o.value).kind = "return"
                 THEN /\ summary' = Put(summary, "domain", o.value)
                      /\ pc' = "questions"
                      /\ UNCHANGED <<run_summary, i>>
                 ELSE IterationFailed(summary_text("domain", o.value).value)
    /\ UNCHANGED <<iterations, disk, summary_file, llm, call>>

\* STEP 2 of _run_once: no try around the call.
QuestionStage ==
    /\ pc = "questions"
    /\ \E o \in generate_questions(
                   argument("questions", "domain", summary, structured_memory)),
          sv \in SaveOutcomes :
         IF o.kind = "raise"
         THEN /\ sv.ok
              /\ faults + o.cost <= MaxFaults
              /\ faults' = faults + o.cost
              /\ IterationFailed(o.value)
              /\ log' = log \o <<Event("call", "questions"),
                                 Event("raise", "questions")>>
              /\ UNCHANGED <<structured_memory, memory_file>>
         ELSE /\ faults + o.cost + sv.cost <= MaxFaults
              /\ faults' = faults + o.cost + sv.cost
              /\ MemoryAdd("questions", o.value, sv.ok)
              /\ log' = log \o <<Event("call", "questions"),
                                 Event("return", "questions"),
                                 Event("add", "questions")>>
              /\ summary' = Put(summary, "questions", o.value)
              /\ pc' = "data"
              /\ UNCHANGED <<run_summary, i>>
    /\ UNCHANGED <<iterations, disk, summary_file, llm, call>>

\* STEP 3 of _run_once: the call is inside a try whose except substitutes
\* the record DataFinderFailed.
DataStage ==
    /\ pc = "data"
    /\ \E o \in data_stage(argument("data", "domain", summary, structured_memory)),
          sv \in SaveOutcomes :
         LET data_info == IF o.kind = "raise" THEN DataFinderFailed ELSE o.value
         IN  /\ faults + o.cost + sv.cost <= MaxFaults
             /\ faults' = faults + o.cost + sv.cost
             /\ MemoryAdd("data", data_info, sv.ok)
             /\ log' = log \o <<Event("call", "data"), Event(o.kind, "data"),
                                Event("add", "data")>>
             /\ summary' = Put(summary, "data_info", data_info)
    /\ pc' = "experiment"
    /\ UNCHANGED <<iterations, i, run_summary, disk, summary_file, llm, call>>

\* STEP 4 of _run_once: the call is inside a try whose except substitutes
\* {"error": str(e)}.
ExperimentStage ==
    /\ pc = "experiment"
    /\ \E o \in design_experiment(
                   argument("experiment", "domain", summary, structured_memory),
                   argument("experiment", "data", summary, structured_memory), disk),
          sv \in SaveOutcomes :
         LET experiment_results ==
                 IF o.kind = "raise" THEN [error |-> o.value] ELSE o.value
         IN  /\ faults + o.cost + sv.cost <= MaxFaults
             /\ faults' = faults + o.cost + sv.cost
             /\ disk' = o.disk
             /\ MemoryAdd("experiment", experiment_results, sv.ok)
             /\ log' = log \o <<Event("call", "experiment")>>
                           \o Events(o.trace, "experiment")
                           \o <<Event(o.kind, "experiment"),
                                Event("add", "experiment")>>
             /\ summary' = Put(summary, "experiment_results", experiment_results)
    /\ pc' = "critique"
    /\ UNCHANGED <<iterations, i, run_summary, summary_file, llm, call>>

\* The responses run_cycle is run with: the nominal one, one that lacks a
\* key critique does not look for, and a failure.
StageCritiqueResponses ==
    { Invoked(LLMCritique, FALSE),
      Invoked(Without(LLMCritique, "risks"), FALSE),
      InvokeRaises }

\* critique as _run_once calls it, once per response of the capability;
\* every response but the nominal one is a deviation, and an injected fault
\* is the only way for the call to raise.
critique_stage(experiment_results) ==
    { [kind |-> "return",
       value |-> critique(llm, r, experiment_results),
       cost |-> IF llm /\ r # Invoked(LLMCritique, FALSE) THEN 1 ELSE 0,
       trace |-> IF ~llm THEN <<>>
                 ELSE IF Primary(llm, r, experiment_results)
                 THEN <<"remote:critique">>
                 ELSE <<"remote:critique", "critique failed">>]
      : r \in StageCritiqueResponses }
    \cup {[kind |-> "raise", value |-> "injected fault", cost |-> 1, trace |-> <<>>]}

\* STEP 5 of _run_once: the call is inside a try whose except substitutes
\* {"error": str(e)}.
CritiqueStage ==
    /\ pc = "critique"
    /\ \E o \in critique_stage(
                   argument("critique", "experiment", summary, structured_memory)),
          sv \in SaveOutcomes :
         LET result == IF o.kind = "raise" THEN [error |-> o.value] ELSE o.value
         IN  /\ faults + o.cost + sv.cost <= MaxFaults
             /\ faults' = faults + o.cost + sv.cost
             /\ MemoryAdd("critique", result, sv.ok)
             /\ log' = log \o <<Event("call", "critique")>>
                           \o Events(o.trace, "critique")
                           \o <<Event(o.kind, "critique"), Event("add", "critique")>>
             /\ summary' = Put(summary, "critique", result)
    /\ pc' = "paper"
    /\ UNCHANGED <<iterations, i, run_summary, disk, summary_file, llm, call>>

\* STEP 6 of _run_once and the return to run_cycle: generate_paper gets the
\* five objects held by the store, which are the objects summary holds, and
\* its normalization sets keys on two of them; the call is inside a try
\* whose except substitutes {"error": str(e)}.
PaperStage ==
    /\ pc = "paper"
    /\ \E o \in paper_stage, sv \in SaveOutcomes :
         LET paper == IF o.kind = "raise" THEN [error |-> o.value] ELSE o.value
             data_info == IF o.normalized
                          THEN normalize_data_info(
                                   argument("paper", "data", summary, structured_memory))
                          ELSE argument("paper", "data", summary, structured_memory)
             experiment_results ==
                 IF o.normalized
                 THEN normalize_experiment_results(
                          argument("paper", "experiment", summary, structured_memory))
                 ELSE argument("paper", "experiment", summary, structured_memory)
             mem == [structured_memory EXCEPT !["data"] = data_info,
                                              !["experiment"] = experiment_results]
             result == Put([summary EXCEPT !["data_info"] = data_info,
                                           !["experiment_results"] = experiment_results],
                           "paper", paper)
         IN  /\ faults + o.cost + sv.cost <= MaxFaults
             /\ faults' = faults + o.cost + sv.cost
             /\ disk' = IF o.kind = "return" /\ o.value.status = "success"
                        THEN disk \cup {MarkdownFile, HtmlFile} ELSE disk
             /\ structured_memory' = add(mem, "paper", paper)
             /\ memory_file' = _save_structured(memory_file, add(mem, "paper", paper), sv.ok)
             /\ log' = log \o <<Event("call", "paper"), Event(o.kind, "paper"),
                                Event("add", "paper")>>
             /\ IterationSucceeded(result)
    /\ UNCHANGED <<iterations, summary_file, llm, call>>

\* The dump placed before status and completed_at are set.
json_dump_before_status(rs) == [results |-> rs.results]

\* json.dump of a dataset summary: a tuple is written as a list.
json_summary(ds) ==
    IF "average_resolution" \in DOMAIN ds
    THEN [ds EXCEPT !.average_resolution = PyList(@.py_tuple)]
    ELSE ds

\* What json.dump(run_summary) writes, as the tree json.load reads back.
json_dump(rs) ==
    [rs EXCEPT !.results =
        [n \in 1..Len(@) |->
            IF "experiment_results" \in DOMAIN @[n]
               /\ "dataset_analysis" \in DOMAIN @[n].experiment_results
            THEN [@[n] EXCEPT !.experiment_results.dataset_analysis =
                     [m \in 1..Len(@) |-> json_summary(@[m])]]
            ELSE @[n]]]

\* The overall status taken from the iterations.
final_summary_from_iterations(rs) ==
    [results |-> rs.results,
     status |-> IF \E n \in 1..Len(rs.results) : rs.results[n].status = "failed"
                THEN "failed" ELSE "success",
     completed_at |-> "now"]

\* Lines 56-57 of run_cycle.
final_summary(rs) ==
    [results |-> rs.results, status |-> "success", completed_at |-> "now"]

\* Lines 56-64 of run_cycle: status and completed_at, the dump to
\* run_summary.json (outside any try) and the return.
Persist ==
    /\ pc = "persist"
    /\ \E w \in SaveOutcomes :
         /\ faults + w.cost <= MaxFaults
         /\ faults' = faults + w.cost
         /\ run_summary' = final_summary(run_summary)
         /\ IF w.ok
            THEN /\ summary_file' =
                        [exists |-> TRUE,
                         content |-> json_dump(final_summary(run_summary)),
                         writes |-> summary_file.writes + 1]
                 /\ log' = log \o <<<<"write", "run_summary", i>>,
                                    <<"return", "run_cycle", i>>>>
                 /\ pc' = "done"
            ELSE /\ UNCHANGED summary_file
                 /\ log' = log \o <<<<"raise", "run_cycle", i>>>>
                 /\ pc' = "raised"
    /\ UNCHANGED <<iterations, i, summary, structured_memory, memory_file,
                   disk, llm, call>>

Next ==
    \/ run_cycle
    \/ DomainStage
    \/ QuestionStage
    \/ DataStage
    \/ ExperimentStage
    \/ CritiqueStage
    \/ PaperStage
    \/ Persist

Spec == Init /\ [][Next]_vars

\* run_cycle is one synchronous call: it keeps taking steps until it
\* returns or raises.
FairSpec == Spec /\ WF_vars(Next)

\* The file an earlier process left in backend/memory_store: the six
\* records of its last iteration.
PreviousStore ==
    [domain |-> [domain_name |-> "Earlier Domain", description |-> "earlier"],
     questions |-> PyList(<<[question |-> "q0", reasoning |-> "r0",
                             potential_impact |-> "p0"]>>),
     data |-> [metadata |-> <<>>, summary |-> "earlier"],
     experiment |-> [error |-> "earlier"],
     critique |-> [error |-> "earlier"],
     paper |-> [error |-> "earlier"]]

\* Orchestrator.__init__ in a process that finds that file: MemoryManager
\* loads it (vector_memory.py:43).
Restarted ==
    /\ pc = "constructed"
    /\ iterations = 0
    /\ i = 0
    /\ run_summary = [results |-> <<>>]
    /\ summary = EmptyDict
    /\ memory_file = [exists |-> TRUE, content |-> PreviousStore]
    /\ structured_memory = _load_structured(memory_file, TRUE)
    /\ disk = {}
    /\ summary_file = [exists |-> FALSE, content |-> [results |-> <<>>], writes |-> 0]
    /\ log = <<>>
    /\ llm \in BOOLEAN
    /\ faults = IF llm THEN 0 ELSE 1

RestartInit == Restarted /\ call = NoCall

\* run_cycle in a process that loaded the file of an earlier one.
RestartSpec == RestartInit /\ [][Next]_vars

TypeOK ==
    /\ pc \in {"constructed", "domain", "questions", "data", "experiment",
               "critique", "paper", "persist", "done", "raised"}
    /\ iterations \in 0..MaxIter
    /\ i \in 0..iterations
    /\ faults \in 0..MaxFaults
    /\ Len(run_summary.results) = i

----------------------------------------------------------------------------
\* Direct calls of CriticAgent's methods

\* The orchestrator's variables, which a direct call leaves alone.
orchestrator_vars ==
    <<pc, iterations, i, run_summary, summary, structured_memory, memory_file,
      disk, summary_file, log, faults, llm>>

\* The call has returned (or raised) with outcome result.
Returned(c, result) == Put(Put(c, "returned", TRUE), "result", result)

DatasetSummary(num_images) ==
    [dataset_name |-> "sample_images", num_images |-> num_images,
     average_resolution |-> [py_tuple |-> <<4096, 4096>>],
     sample_visualization |-> "backend/results/experiments/sample_images_samples.png"]

\* Results of design_experiment with or without datasets (one of 5 or of 12
\* images), methods, metrics and tools.
WellFormedInputs ==
    { [dataset_analysis |-> ds,
       experiment_proposal |->
           [hypotheses |-> <<"H1">>,
            experiment_design |-> [methods |-> methods, metrics |-> metrics,
                                   tools |-> tools]],
       visualization_path |-> VisFile]
      : ds \in {<<>>, <<DatasetSummary(5)>>, <<DatasetSummary(12)>>,
                <<DatasetSummary(12), DatasetSummary(5)>>},
        methods \in {<<>>, <<[name |-> "Image Analysis"]>>},
        metrics \in {<<>>, <<[name |-> "Accuracy"]>>},
        tools \in {<<>>, <<[name |-> "TensorFlow"]>>, <<[name |-> "ImageJ"]>>,
                   <<[name |-> "ImageJ"], [name |-> "PyTorch"]>>} }

\* The orchestrator's degraded default, a proposal that did not parse, and
\* an empty result.
DegradedInputs ==
    { [error |-> "proposal capability failed"],
      [dataset_analysis |-> <<>>, experiment_proposal |-> ProposalParseFailure,
       visualization_path |-> DefaultChart],
      EmptyDict }

\* Inputs on which a .get of _heuristic_critique meets a list or a number.
MalformedInputs ==
    { PyList(<<>>),
      [dataset_analysis |-> <<>>, experiment_proposal |-> PyList(<<"H1">>)],
      [dataset_analysis |-> <<>>,
       experiment_proposal |-> [experiment_design |-> PyList(<<"CV">>)]],
      [dataset_analysis |-> <<DatasetSummary(12), PyList(<<"d">>)>>,
       experiment_proposal |-> ProposalFull],
      [dataset_analysis |-> <<>>,
       experiment_proposal |->
           [experiment_design |-> [methods |-> <<>>, metrics |-> <<>>,
                                   tools |-> <<PyInt(7)>>]]],
      \* entries any(...) does not reach
      [dataset_analysis |-> <<DatasetSummary(5), PyList(<<"d">>)>>,
       experiment_proposal |-> ProposalFull],
      [dataset_analysis |-> <<>>,
       experiment_proposal |->
           [experiment_design |-> [methods |-> <<>>, metrics |-> <<>>,
                                   tools |-> <<[name |-> "PyTorch"], PyInt(7)>>]]] }

CritiqueInputs == WellFormedInputs \cup DegradedInputs \cup MalformedInputs

CriticCalls ==
    { [fn |-> "critique", response |-> r, experiment_result |-> e,
       returned |-> FALSE] : r \in CritiqueResponses, e \in CritiqueInputs }
    \cup { [fn |-> "_heuristic_critique", experiment_result |-> e,
            returned |-> FALSE] : e \in CritiqueInputs }

CriticInit == Constructed /\ call \in CriticCalls

\* critic_agent.critique(domain_info, experiment_result).
CritiqueCall ==
    /\ call.fn = "critique"
    /\ ~call.returned
    /\ call' = Returned(call, critique(llm, call.response, call.experiment_result))
    /\ UNCHANGED orchestrator_vars

\* critic_agent._heuristic_critique(domain_info, experiment_result).
HeuristicCall ==
    /\ call.fn = "_heuristic_critique"
    /\ ~call.returned
    /\ call' = Returned(call, _heuristic_critique(call.experiment_result))
    /\ UNCHANGED orchestrator_vars

CriticNext == CritiqueCall \/ HeuristicCall

CriticSpec == CriticInit /\ [][CriticNext]_vars

----------------------------------------------------------------------------
\* A direct call of design_experiment, then of the fallback critique on its
\* result

TestDomain == [name |-> "Test Domain", description |-> "x"]

\* Dataset infos with an empty dataset list: find_data's record, the record
\* analyze_datasets reads, and the orchestrator's degraded default.
EmptyDatasetInfos ==
    {find_data_result(<<>>), [metadata |-> <<>>], DataFinderFailed}

DesignCalls ==
    { [fn |-> "design_experiment", domain_info |-> TestDomain,
       data_info |-> d, returned |-> FALSE] : d \in EmptyDatasetInfos }

DesignInit == Constructed /\ call \in DesignCalls

\* experiment_agent.design_experiment(domain_info, data_info).
DesignCall ==
    /\ call.fn = "design_experiment"
    /\ ~call.returned
    /\ \E o \in design_experiment(call.domain_info, call.data_info, disk) :
          /\ call' = Returned(call, [kind |-> o.kind, value |-> o.value,
                                     trace |-> o.trace])
          /\ disk' = o.disk
    /\ UNCHANGED <<pc, iterations, i, run_summary, summary, structured_memory,
                   memory_file, summary_file, log, faults, llm>>

\* critic_agent._heuristic_critique(domain_info, experiment_result) on the
\* result design_experiment returned.
DesignCritiqueCall ==
    /\ call.fn = "design_experiment"
    /\ call.returned
    /\ call.result.kind = "return"
    /\ "critique" \notin DOMAIN call
    /\ call' = Put(call, "critique", _heuristic_critique(call.result.value))
    /\ UNCHANGED orchestrator_vars

DesignNext == DesignCall \/ DesignCritiqueCall

DesignSpec == DesignInit /\ [][DesignNext]_vars

----------------------------------------------------------------------------
\* The normalization of generate_paper applied to one parameter, and again
\* to what it made of it

\* Values that are no str: dicts without and with the keys that are
\* ensured, lists, a number, None.
PlainValues ==
    { EmptyDict,
      [title |-> Text("t")],
      [metadata |-> <<>>, experiment_proposal |-> EmptyDict, dataset_analysis |-> <<>>],
      PyList(<<>>),
      PyList(<<PyInt(1)>>),
      PyInt(42),
      None }

\* Every input shape: the plain values, their JSON texts, a text that is no
\* JSON, and the JSON texts of two strings.
NormalizeInputs ==
    PlainValues
    \cup {Str(v) : v \in PlainValues}
    \cup {Text("free text"), Str(Text("free text")), Str(Str(PyInt(42)))}

NormalizeCalls ==
    { [fn |-> "normalize", field |-> f, value |-> v, returned |-> FALSE]
      : f \in Fields, v \in NormalizeInputs }

NormalizeInit == Constructed /\ call \in NormalizeCalls

\* Lines 207-275 of generate_paper for one parameter.
NormalizeCall ==
    /\ call.fn = "normalize"
    /\ ~call.returned
    /\ call' = Returned(call, normalize(call.field, call.value))
    /\ UNCHANGED orchestrator_vars

\* The same lines on the value they produced.
NormalizeAgain ==
    /\ call.fn = "normalize"
    /\ call.returned
    /\ call.result.kind = "return"
    /\ "again" \notin DOMAIN call
    /\ call' = Put(call, "again", normalize(call.field, call.result.value))
    /\ UNCHANGED orchestrator_vars

NormalizeNext == NormalizeCall \/ NormalizeAgain

NormalizeSpec == NormalizeInit /\ [][NormalizeNext]_vars

----------------------------------------------------------------------------
\* STEP 6 of _run_once on its own: generate_paper on five arguments, one of
\* them of any shape, and the record stored under paper

PaperCalls ==
    { [fn |-> "generate_paper",
       args |-> [f \in Fields |-> IF f = g THEN v ELSE EmptyDict],
       written |-> w, returned |-> FALSE]
      : g \in Fields, v \in NormalizeInputs, w \in BOOLEAN }

PaperInit == Constructed /\ call \in PaperCalls

\* Lines 133-152: the call inside try, {"error": str(e)} in its except,
\* memory.add("paper", paper).
PaperCall ==
    /\ call.fn = "generate_paper"
    /\ ~call.returned
    /\ \E sv \in SaveOutcomes :
          LET o == generate_paper(call.args, call.written)
              paper == IF o.kind = "raise" THEN [error |-> o.value] ELSE o.value
          IN  /\ call' = Returned(call, o)
              /\ MemoryAdd("paper", paper, sv.ok)
    /\ UNCHANGED <<pc, iterations, i, run_summary, summary, disk, summary_file,
                   log, faults, llm>>

PaperNext == PaperCall

PaperSpec == PaperInit /\ [][PaperNext]_vars

----------------------------------------------------------------------------
\* Direct calls of MemoryManager's add, and restarts over its file

\* What json.load reads back from what json.dump(value, default=str) wrote:
\* a tuple comes back as a list, dicts and lists element by element,
\* numbers, strings and None as they are.
RECURSIVE json_tree(_)
json_tree(v) ==
    IF IsPyList(v)
    THEN PyList([n \in 1..Len(v.py_list) |-> json_tree(v.py_list[n])])
    ELSE IF IsPyTuple(v)
    THEN PyList([n \in 1..Len(v.py_tuple) |-> json_tree(v.py_tuple[n])])
    ELSE IF IsDict(v) THEN [k \in DOMAIN v |-> json_tree(v[k])]
    ELSE v

StoreKeys == {"questions", "data"}

\* Trees of primitives, lists and string-keyed mappings.
JsonTrees ==
    { PyInt(1),
      PyList(<<Text("What is AI?"), Text("How does it work?")>>),
      [datasets |-> PyList(<<[path |-> Text("data.csv"), rows |-> PyInt(100)]>>)],
      EmptyDict }

\* The values added: the trees, and a value holding a tuple.
StoreValues ==
    JsonTrees \cup {[average_resolution |-> [py_tuple |-> <<PyInt(4096), PyInt(4096)>>]]}

StoreInit == Constructed /\ call = [fn |-> "MemoryManager"]

\* memory.add(k, v).
StoreAdd ==
    /\ \E k \in StoreKeys, v \in StoreValues, sv \in SaveOutcomes :
          /\ structured_memory' = add(structured_memory, k, v)
          /\ memory_file' = _save_structured(
                                memory_file,
                                json_tree(add(structured_memory, k, v)), sv.ok)
          /\ call' = [fn |-> "add", key |-> k, value |-> v, saved |-> sv.ok,
                      memory_before |-> structured_memory,
                      file_before |-> memory_file]
    /\ UNCHANGED <<pc, iterations, i, run_summary, summary, disk, summary_file,
                   log, faults, llm>>

\* A new MemoryManager over the same storage_path.
StoreRestart ==
    /\ call.fn # "restart"
    /\ \E ok \in BOOLEAN :
          /\ structured_memory' = _load_structured(memory_file, ok)
          /\ call' = [fn |-> "restart", loaded |-> ok, after |-> call.fn,
                      key |-> IF call.fn = "add" THEN call.key ELSE "",
                      value |-> IF call.fn = "add" THEN call.value ELSE None,
                      saved |-> IF call.fn = "add" THEN call.saved ELSE FALSE]
    /\ UNCHANGED <<pc, iterations, i, run_summary, summary, memory_file, disk,
                   summary_file, log, faults, llm>>

StoreNext == StoreAdd \/ StoreRestart

StoreSpec == StoreInit /\ [][StoreNext]_vars

----------------------------------------------------------------------------
\* A MemoryManager constructed over a file found on disk, then get

\* The text of a file that json.load cannot parse.
Corrupt == [py_invalid |-> TRUE]

\* self.structured_memory.get(key, default): an attribute of dicts only.
get_default(mem, key, default) ==
    IF IsDict(mem) THEN Return(Get(mem, key, default), 0)
    ELSE Raise("AttributeError: object has no attribute 'get'", 0)

\* What structured_memory.json may hold when __init__ runs: nothing, text
\* that is no JSON, a JSON mapping, or JSON of another type.
FoundFiles ==
    {[exists |-> FALSE, content |-> EmptyDict]}
    \cup {[exists |-> TRUE, content |-> c] :
            c \in {Corrupt, EmptyDict,
                   [questions |-> PyList(<<Text("What is AI?")>>)],
                   [questions |-> PyList(<<>>), data |-> [datasets |-> PyList(<<>>)]],
                   PyList(<<>>), PyList(<<PyInt(1)>>), PyInt(5), Text("questions"),
                   None}}

Defaults == {None, PyInt(0), PyList(<<>>)}

LoadInit ==
    /\ pc = "constructed"
    /\ iterations = 0
    /\ i = 0
    /\ run_summary = [results |-> <<>>]
    /\ summary = EmptyDict
    /\ structured_memory = EmptyDict
    /\ memory_file \in FoundFiles
    /\ disk = {}
    /\ summary_file = [exists |-> FALSE, content |-> [results |-> <<>>], writes |-> 0]
    /\ log = <<>>
    /\ llm = TRUE
    /\ faults = 0
    /\ call = [fn |-> "MemoryManager"]

\* MemoryManager.__init__: structured_memory = {} and _load_structured.
LoadConstruct ==
    /\ call.fn = "MemoryManager"
    /\ \E ok \in BOOLEAN :
          /\ structured_memory' = _load_structured(memory_file, ok)
          /\ call' = [fn |-> "__init__", readable |-> ok]
    /\ UNCHANGED <<pc, iterations, i, run_summary, summary, memory_file, disk,
                   summary_file, log, faults, llm>>

\* memory.get(key, default).
LoadGet ==
    /\ call.fn = "__init__"
    /\ \E k \in StoreKeys, d \in Defaults :
          call' = [fn |-> "get", key |-> k, default |-> d,
                   result |-> get_default(structured_memory, k, d)]
    /\ UNCHANGED orchestrator_vars

LoadNext == LoadConstruct \/ LoadGet

LoadSpec == LoadInit /\ [][LoadNext]_vars

----------------------------------------------------------------------------
\* A caller that holds the result of get_all while the store is used

\* return self.structured_memory: the dict object of the store itself.
get_all == [ref |-> "self.structured_memory"]

\* The mapping an object reference stands for, mem being the store's dict.
Deref(r, mem) == IF "ref" \in DOMAIN r THEN mem ELSE r.copy

SnapValues == {PyInt(1), PyList(<<Text("Q1"), Text("Q2")>>)}

SnapInit ==
    /\ Constructed
    /\ call = [fn |-> "MemoryManager", held |-> FALSE, result |-> None,
               seen |-> EmptyDict, store_before |-> EmptyDict]

\* memory.add(k, v).
SnapAdd ==
    /\ \E k \in StoreKeys, v \in SnapValues, sv \in SaveOutcomes :
          /\ structured_memory' = add(structured_memory, k, v)
          /\ memory_file' = _save_structured(
                                memory_file,
                                json_tree(add(structured_memory, k, v)), sv.ok)
    /\ call' = [call EXCEPT !.fn = "add", !.store_before = structured_memory]
    /\ UNCHANGED <<pc, iterations, i, run_summary, summary, disk, summary_file,
                   log, faults, llm>>

\* result = memory.get_all(); seen is what the result held when obtained.
SnapGetAll ==
    /\ call' = [fn |-> "get_all", held |-> TRUE, result |-> get_all,
                seen |-> structured_memory, store_before |-> structured_memory]
    /\ UNCHANGED orchestrator_vars

\* result[k] = v by the caller, on the object get_all returned.
SnapModify ==
    /\ call.held
    /\ \E k \in StoreKeys, v \in SnapValues :
          /\ structured_memory' =
                IF "ref" \in DOMAIN call.result
                THEN Put(structured_memory, k, v) ELSE structured_memory
          /\ call' = [call EXCEPT !.fn = "modify",
                                  !.seen = Put(Deref(call.result, structured_memory), k, v),
                                  !.store_before = structured_memory]
    /\ UNCHANGED <<pc, iterations, i, run_summary, summary, memory_file, disk,
                   summary_file, log, faults, llm>>

SnapNext == SnapAdd \/ SnapGetAll \/ SnapModify

SnapSpec == SnapInit /\ [][SnapNext]_vars

----------------------------------------------------------------------------
\* The statements of _run_once that follow a stage's call: memory.add,
\* memory.add_summary and the assignment into summary

\* What the stages hand to the store.
StageValues(stage) ==
    CASE stage = "domain" -> {DomainFull, DomainParseFailure, DomainNoName}
      [] stage = "questions" ->
            {QuestionList, QuestionParseFailure,
             [error |-> "Missing or invalid domain_info"],
             [error |-> "LLM call failed", details |-> "e"]}
      [] stage = "data" ->
            {find_data_result(<<Dataset>>), find_data_result(<<>>), DataFinderFailed}
      [] stage = "experiment" ->
            {[error |-> "injected fault"],
             [dataset_analysis |-> <<>>,
              experiment_proposal |-> [error |-> "Failed to parse LLM output"]]}
      [] stage = "critique" -> {[error |-> "injected fault"], MinimalCritique("e")}
      [] OTHER -> {PaperSuccess, PaperError, [error |-> "injected fault"]}

\* vectorstore: whether __init__ got a vector store; ok: whether add_texts
\* stores the note.
SemanticCalls ==
    UNION { { [fn |-> "store", returned |-> FALSE, stage |-> Stages[n], value |-> v,
               vectorstore |-> vs, ok |-> ok, notes |-> <<>>]
              : v \in StageValues(Stages[n]) }
            : n \in 1..Len(Stages), vs \in BOOLEAN, ok \in BOOLEAN }

SemanticInit == Constructed /\ call \in SemanticCalls

\* memory.add(stage, value); memory.add_summary(text, {"stage": stage});
\* summary[...] = value.
SemanticStore ==
    /\ call.fn = "store"
    /\ ~call.returned
    /\ \E sv \in SaveOutcomes :
          LET text == summary_text(call.stage, call.value)
          IN  /\ MemoryAdd(call.stage, call.value, sv.ok)
              /\ call' =
                    IF text.kind = "raise"
                    THEN Returned(call, text)
                    ELSE Returned(
                           [call EXCEPT !.notes = add_summary(
                               call.vectorstore, @, text.value, call.stage, call.ok)],
                           Return(call.value, 0))
    /\ UNCHANGED <<pc, iterations, i, run_summary, summary, disk, summary_file,
                   log, faults, llm>>

SemanticNext == SemanticStore

SemanticSpec == SemanticInit /\ [][SemanticNext]_vars

----------------------------------------------------------------------------
\* The dashboard: the script that starts a run in a worker thread and
\* monitors it, and the worker threads

\* How many runs are started.
MaxRuns == 2

\* How many writes (memory.add's file, result files) one run makes.
WritesPerRun == 2

\* The folders cleanup_results empties, one after the other.
CleanupFolders == <<"experiments", "final_paper">>

\* script: where the script is; running: st.session_state.running; run: the
\* number of the run last started; cleaned: the folders emptied so far;
\* workers: the writes each worker thread has still to make; ended: how the
\* script left each run; writes: the deletions and writes made, each with
\* the run that made it.
AppInit ==
    /\ Constructed
    /\ call = [fn |-> "app", script |-> "idle", running |-> FALSE, run |-> 0,
               cleaned |-> 0, workers |-> <<>>, ended |-> <<>>, writes |-> <<>>]

\* "Start Research": running is set and the script goes on to the cleanup.
AppStart ==
    /\ call.script = "idle"
    /\ call.run < MaxRuns
    /\ call' = [call EXCEPT !.script = "cleanup", !.running = TRUE,
                            !.run = @ + 1, !.cleaned = 0]
    /\ UNCHANGED orchestrator_vars

\* cleanup_results: the files of one folder are unlinked.
AppCleanup ==
    /\ call.script = "cleanup"
    /\ call.cleaned < Len(CleanupFolders)
    /\ call' = [call EXCEPT !.cleaned = @ + 1,
                            !.writes = Append(@, <<"unlink", call.run>>)]
    /\ UNCHANGED orchestrator_vars

\* Orchestrator() and Thread(target=research_worker, daemon=True).start().
AppSpawn ==
    /\ call.script = "cleanup"
    /\ call.cleaned = Len(CleanupFolders)
    /\ call' = [call EXCEPT !.script = "monitor",
                            !.workers = Append(@, WritesPerRun)]
    /\ UNCHANGED orchestrator_vars

\* A worker thread, alive, makes its next write.
WorkerWrite ==
    /\ \E r \in 1..Len(call.workers) :
          /\ call.workers[r] > 0
          /\ call' = [call EXCEPT !.workers[r] = @ - 1,
                                  !.writes = Append(@, <<"write", r>>)]
    /\ UNCHANGED orchestrator_vars

\* The monitor loop ends because the worker thread is no longer alive.
AppCompleted ==
    /\ call.script = "monitor"
    /\ call.workers[call.run] = 0
    /\ call' = [call EXCEPT !.script = "idle", !.running = FALSE,
                            !.ended = Append(@, "completed")]
    /\ UNCHANGED orchestrator_vars

\* elapsed > timeout_seconds: running is reset and st.stop() ends the
\* script; the worker thread is neither stopped nor joined.
AppTimeout ==
    /\ call.script = "monitor"
    /\ call.workers[call.run] > 0
    /\ call' = [call EXCEPT !.script = "idle", !.running = FALSE,
                            !.ended = Append(@, "timeout")]
    /\ UNCHANGED orchestrator_vars

\* "Stop Research": running is reset and the script reruns; the worker
\* thread is neither stopped nor joined.
AppStop ==
    /\ call.script = "monitor"
    /\ call.running
    /\ call' = [call EXCEPT !.script = "idle", !.running = FALSE,
                            !.ended = Append(@, "stop")]
    /\ UNCHANGED orchestrator_vars

AppNext ==
    \/ AppStart
    \/ AppCleanup
    \/ AppSpawn
    \/ WorkerWrite
    \/ AppCompleted
    \/ AppTimeout
    \/ AppStop

AppSpec == AppInit /\ [][AppNext]_vars

----------------------------------------------------------------------------
\* The semantic notes: __init__, add_summary and query of MemoryManager

\* The most add_summary calls of one process.
MaxNotes == 2

\* The largest k of a query; 3 is query's default.
MaxK == 3

\* Lines 27-40 of __init__: FAISS.from_texts(["Memory initialized."]) makes
\* a store that holds that text; when it raises, Chroma(...) makes an empty
\* one; when that raises too there is no store.
vectorstore_init(faiss_ok, chroma_ok) ==
    IF faiss_ok
    THEN [vectorstore |-> TRUE, notes |-> <<[text |-> "Memory initialized."]>>]
    ELSE IF chroma_ok THEN [vectorstore |-> TRUE, notes |-> <<>>]
    ELSE [vectorstore |-> FALSE, notes |-> <<>>]

\* The orders in which similarity_search can rank n notes: the embeddings
\* are FakeEmbeddings, drawn at random.
Rankings(n) ==
    {r \in [1..n -> 1..n] : \A a, b \in 1..n : a # b => r[a] # r[b]}

\* query(query_text, k): [] without a vector store or when
\* similarity_search raises, else the page_content of the k notes ranked
\* first, or of all of them when there are fewer.
query(vectorstore, notes, k, ranking, ok) ==
    IF ~vectorstore \/ ~ok THEN <<>>
    ELSE [n \in 1..(IF k < Len(notes) THEN k ELSE Len(notes)) |->
             notes[ranking[n]].text]

VectorInit ==
    /\ Constructed
    /\ \E faiss_ok, chroma_ok \in BOOLEAN :
          LET m == vectorstore_init(faiss_ok, chroma_ok)
          IN  call = [fn |-> "notes", vectorstore |-> m.vectorstore,
                      notes |-> m.notes, added |-> <<>>, calls |-> 0,
                      queried |-> FALSE, k |-> 0, ok |-> TRUE, result |-> <<>>]

\* memory.add_summary(text, {"stage": stage}).
VectorAddSummary ==
    /\ call.fn = "notes"
    /\ call.calls < MaxNotes
    /\ \E text \in {"Found 1 valid datasets", "Critique completed."},
          ok \in BOOLEAN :
          call' = [call EXCEPT
                     !.notes = add_summary(call.vectorstore, @, text, "data", ok),
                     !.added = Append(@, text),
                     !.calls = @ + 1,
                     !.queried = FALSE]
    /\ UNCHANGED orchestrator_vars

\* memory.query(query_text, k).
VectorQuery ==
    /\ call.fn = "notes"
    /\ \E k \in 1..MaxK, ok \in BOOLEAN, ranking \in Rankings(Len(call.notes)) :
          call' = [call EXCEPT
                     !.queried = TRUE, !.k = k, !.ok = ok,
                     !.result = query(call.vectorstore, call.notes, k, ranking, ok)]
    /\ UNCHANGED orchestrator_vars

VectorNext == VectorAddSummary \/ VectorQuery

VectorSpec == VectorInit /\ [][VectorNext]_vars

----------------------------------------------------------------------------
\* Properties of run_cycle and _run_once

Results == run_summary.results

Statuses == [n \in 1..Len(Results) |-> Results[n].status]

Finished == pc \in {"persist", "done", "raised"}

\* The raises of stage invocations.
StageRaises == SelectSeq(log, LAMBDA e : e[1] = "raise" /\ e[2] \in StageSet)

RaiseMessages ==
    {o.value : o \in {x \in discover_domain \cup generate_questions(DomainFull)
                            : x.kind = "raise"}}

\* C1: the results list holds one record per iteration run so far, the n-th
\* carrying iteration = n and status success or failed; when run_cycle(N)
\* has left its loop there are exactly N records and every iteration 1..N
\* was started, whatever failed before it.
C1_OneRecordPerIteration ==
    /\ \A n \in 1..Len(Results) :
          /\ Results[n].iteration = n
          /\ Results[n].status \in {"success", "failed"}
    /\ Finished =>
          /\ Len(Results) = iterations
          /\ \A k \in 1..iterations :
                \E n \in 1..Len(log) : log[n] = <<"call", "domain", k>>

\* run_cycle(3) has returned, its first iteration failed and the later ones
\* ran.
C1_Witness ==
    /\ pc = "done"
    /\ iterations = 3
    /\ Len(Results) = 3
    /\ Results[1].status = "failed"
    /\ Results[3].status = "success"

\* C2: every raise of a stage invocation is caught at that stage: it is
\* followed at once by the store write of that stage's degraded default, and
\* no iteration is marked failed.
C2_EveryStageFailureCaught ==
    /\ \A n \in 1..Len(log) :
          (log[n][1] = "raise" /\ log[n][2] \in StageSet) =>
              /\ n < Len(log)
              /\ log[n + 1] = <<"add", log[n][2], log[n][3]>>
    /\ \A n \in 1..Len(Results) :
          Results[n].status = "failed" => Results[n].error \notin RaiseMessages

\* run_cycle(3) has returned after exactly one deviation of the environment
\* during the run: one stage invocation raised, in iteration 2.
ThrowInSecondOfThree ==
    /\ pc = "done"
    /\ iterations = 3
    /\ faults = 1 + (IF llm THEN 0 ELSE 1)
    /\ Len(StageRaises) = 1
    /\ StageRaises[1][3] = 2

\* C3 as claimed: whichever stage raises in iteration 2 of 3, iteration 2 is
\* marked failed with the error message and iterations 1 and 3 success.
C3_AnyStageThrowFailsIteration ==
    ThrowInSecondOfThree =>
        /\ Statuses = <<"success", "failed", "success">>
        /\ "error" \in DOMAIN Results[2]

\* C3 amended: there are three records; when the stage that raises is
\* DomainDiscovery or QuestionGeneration iteration 2 is marked failed with
\* the message raised and iterations 1 and 3 success; when it is one of the
\* four later stages all three iterations are marked success and iteration 2
\* records that stage's degraded default.
C3_ThrowInSecondIteration ==
    ThrowInSecondOfThree =>
        LET s == StageRaises[1][2]
        IN  /\ Len(Results) = 3
            /\ s \in {"domain", "questions"} =>
                  /\ Statuses = <<"success", "failed", "success">>
                  /\ DOMAIN Results[2] = {"iteration", "status", "error"}
                  /\ Results[2].error \in RaiseMessages
            /\ s \notin {"domain", "questions"} =>
                  /\ Statuses = <<"success", "success", "success">>
                  /\ IF s = "data"
                     THEN Results[2].data_info = DataFinderFailed
                     ELSE "error" \in DOMAIN Results[2][SummaryKey(s)]

\* QuestionGeneration raised in iteration 2 of 3 and run_cycle returned.
C3_Witness ==
    /\ ThrowInSecondOfThree
    /\ StageRaises[1][2] = "questions"
    /\ Statuses = <<"success", "failed", "success">>

\* DatasetDiscovery was made to raise in iteration 2 of 3 and run_cycle
\* returned.
C3_WitnessCaught ==
    /\ ThrowInSecondOfThree
    /\ StageRaises[1][2] = "data"
    /\ "domain_name" \in DOMAIN Results[2].domain

\* The calls of the stages with their returns and raises, in order.
CallsAndEnds ==
    SelectSeq(log, LAMBDA e : e[1] \in {"call", "return", "raise"}
                              /\ e[2] \in StageSet)

\* C4: while an iteration runs the records of all iterations before it are
\* in the results list; in the log of a run that has left its loop the
\* stages are called in the order DomainDiscovery .. ReportSynthesis, each at
\* most once per iteration and only after the call before it has returned or
\* raised, and the first stage of iteration k+1 is called only after
\* iteration k.
C4_StagesInOrder ==
    /\ pc \in StageSet => Len(Results) = i /\ i < iterations
    /\ Finished =>
          \A ev \in {CallsAndEnds} :
              \A n \in 1..Len(ev) :
                  IF n % 2 = 1
                  THEN /\ ev[n][1] = "call"
                       /\ n = 1 => ev[n] = <<"call", "domain", 1>>
                       /\ n > 2 =>
                             \/ /\ ev[n][3] = ev[n - 2][3]
                                /\ StageIndex(ev[n][2]) = StageIndex(ev[n - 2][2]) + 1
                             \/ /\ ev[n][3] = ev[n - 2][3] + 1
                                /\ ev[n][2] = "domain"
                  ELSE /\ ev[n][1] \in {"return", "raise"}
                       /\ ev[n][2] = ev[n - 1][2]
                       /\ ev[n][3] = ev[n - 1][3]

\* run_cycle(3) has returned after a failed second iteration and a third
\* that ran to its last stage.
C4_Witness ==
    /\ pc = "done"
    /\ Statuses = <<"success", "failed", "success">>
    /\ CallsAndEnds[Len(CallsAndEnds)] = <<"return", "paper", 3>>

\* The calls of the stages and the store writes, in order.
CallsAndAdds == SelectSeq(log, LAMBDA e : e[1] \in {"call", "add"})

\* C5: while an iteration runs the store holds under each key the output
\* the iteration has for it, that of the stage before the one about to be
\* called included; in the log of a run that has left its loop a store write
\* follows the call of its stage, the latest store write before the call of
\* a stage after the first is that of its predecessor's output in the same
\* iteration, and an iteration that ran to its end made one store write per
\* key.
C5_StoredBeforeNextStage ==
    /\ \A s \in StageSet :
          SummaryKey(s) \in DOMAIN summary =>
              /\ s \in DOMAIN structured_memory
              /\ structured_memory[s] = summary[SummaryKey(s)]
    /\ (pc \in StageSet /\ pc # "domain") =>
          SummaryKey(Stages[StageIndex(pc) - 1]) \in DOMAIN summary
    /\ Finished =>
          \A ev \in {CallsAndAdds} :
              /\ \A n \in 1..Len(ev) :
                    IF ev[n][1] = "add"
                    THEN n > 1 /\ ev[n - 1] = <<"call", ev[n][2], ev[n][3]>>
                    ELSE ev[n][2] # "domain" =>
                            /\ n > 1
                            /\ ev[n - 1] = <<"add", Stages[StageIndex(ev[n][2]) - 1],
                                             ev[n][3]>>
              /\ \A k \in 1..Len(Results) :
                    Results[k].status = "success" =>
                        {e[2] : e \in {ev[n] : n \in {m \in 1..Len(ev) :
                                    ev[m][1] = "add" /\ ev[m][3] = k}}} = StageSet

\* run_cycle(2) has left its loop after two iterations that ran to their
\* end, the second with a degraded critique in the store.
C5_Witness ==
    /\ pc = "persist"
    /\ Statuses = <<"success", "success">>
    /\ "error" \in DOMAIN structured_memory["critique"]

\* C6: run_cycle never raises.
C6_RunCycleNeverRaises == pc # "raised"

\* C7: run_cycle(N) eventually returns.
C7_EventuallyReturns == <>(pc = "done")

\* run_cycle(N) eventually returns or raises.
Terminates == <>(pc \in {"done", "raised"})

\* C8: the summary run_cycle returns has status success and a completed_at
\* timestamp, however many iterations failed.
C8_OverallStatusSuccess ==
    pc = "done" =>
        /\ DOMAIN run_summary = {"results", "status", "completed_at"}
        /\ run_summary.status = "success"

\* run_cycle(2) has returned and both iterations failed.
C8_Witness ==
    /\ pc = "done"
    /\ iterations = 2
    /\ Statuses = <<"failed", "failed">>

\* C9: run_summary.json is not written while iterations run, it is written
\* once when run_cycle has returned, and it then holds the summary returned.
C9_PersistedOnceAtEnd ==
    /\ summary_file.writes = (IF pc = "done" THEN 1 ELSE 0)
    /\ pc = "done" =>
          /\ summary_file.exists
          /\ summary_file.content = run_summary
          /\ \A n \in 1..Len(log) :
                log[n][1] = "write" => n = Len(log) - 1

\* run_cycle(2) has returned a summary with a failed and a successful
\* iteration, and the file holds it.
C9_Witness ==
    /\ pc = "done"
    /\ Statuses = <<"failed", "success">>
    /\ summary_file.writes = 1

\* The experiment records held by the store, by the running iteration and
\* by the iteration records.
ExperimentRecords ==
    (IF "experiment" \in DOMAIN structured_memory
     THEN {structured_memory["experiment"]} ELSE {})
    \cup (IF "experiment_results" \in DOMAIN summary
          THEN {summary["experiment_results"]} ELSE {})
    \cup {Results[n].experiment_results :
             n \in {k \in 1..Len(Results) : "experiment_results" \in DOMAIN Results[k]}}

\* C10: every experiment record recorded carries a visualization_path that
\* names an artifact existing on disk.
C10_VisualizationPathExists ==
    \A e \in ExperimentRecords :
        /\ "visualization_path" \in DOMAIN e
        /\ e.visualization_path \in disk

----------------------------------------------------------------------------
\* Properties of CriticAgent

\* The fields of a critique record.
CritiqueFields ==
    {"strengths", "weaknesses", "risks", "recommended_fixes", "critique_score",
     "iterate", "suggested_next_steps", "notes"}

\* What critique returns when it does not return the remote result.
FallbackResult(experiment_result) ==
    IF HeuristicRaises(experiment_result)
    THEN MinimalCritique("object has no attribute 'get'")
    ELSE HeuristicRecord(experiment_result)

\* The remote result can be had and is an object with the keys in fields.
RemoteResultHas(fields) ==
    LET parsed == _llm_critique(llm, call.response, call.experiment_result)
    IN  /\ parsed.kind = "return"
        /\ IsDict(parsed.value)
        /\ fields \subseteq DOMAIN parsed.value

\* C11: critique returns a record, never an exception; unless the
\* capability is available, answers, its answer parses and holds every
\* field of the critique record, that record is the fallback's.
C11_PrimaryOnlyIfWellFormed ==
    (call.fn = "critique" /\ call.returned) =>
        /\ IsDict(call.result)
        /\ ~RemoteResultHas(CritiqueFields) =>
              call.result = FallbackResult(call.experiment_result)

\* critique returns the fallback's record unless the remote result holds the
\* five keys of line 205, and the remote result when it does.
PrimaryIffValidatedKeys ==
    (call.fn = "critique" /\ call.returned) =>
        call.result =
            IF RemoteResultHas(ValidatedKeys)
            THEN _llm_critique(llm, call.response, call.experiment_result).value
            ELSE FallbackResult(call.experiment_result)

\* The critique records held by the store, by the running iteration and by
\* the iteration records.
CritiqueRecords ==
    (IF "critique" \in DOMAIN structured_memory
     THEN {structured_memory["critique"]} ELSE {})
    \cup (IF "critique" \in DOMAIN summary THEN {summary["critique"]} ELSE {})
    \cup {Results[n].critique :
             n \in {m \in 1..Len(Results) : "critique" \in DOMAIN Results[m]}}

\* C12: every critique record recorded has exactly the fields strengths,
\* weaknesses, risks, recommended_fixes, critique_score, iterate,
\* suggested_next_steps and notes.
C12_CritiqueRecordShape ==
    \A c \in CritiqueRecords : DOMAIN c = CritiqueFields

\* A call of the fallback has returned a record.
FallbackReturned ==
    /\ call.fn = "_heuristic_critique"
    /\ call.returned
    /\ call.result.kind = "return"

\* The lists of the proposal the fallback was called with.
DesignOf(experiment_result) ==
    Get(Get(experiment_result, "experiment_proposal", EmptyDict),
        "experiment_design", EmptyDict)

MethodsOf(experiment_result) == Get(DesignOf(experiment_result), "methods", <<>>)

MetricsOf(experiment_result) == Get(DesignOf(experiment_result), "metrics", <<>>)

\* A dataset of fewer than 10 images is among those analysed.
SmallSample(experiment_result) ==
    \E d \in {Get(experiment_result, "dataset_analysis", <<>>)[n] :
                 n \in 1..Len(Get(experiment_result, "dataset_analysis", <<>>))} :
        Get(d, "num_images", 0) < 10

\* C13: in thousandths, the fallback's critique_score is 500, plus 150 when
\* methods is non-empty else minus 15, plus 100 when metrics is non-empty
\* else minus 15, plus 5 when the record has no risk, kept within 0..1000;
\* with methods and metrics and no small-sample dataset it is at least 750
\* and at most 1000.
C13_FallbackScore ==
    FallbackReturned =>
        LET e == call.experiment_result
            r == call.result.value
            sum == 500
                   + (IF MethodsOf(e) # <<>> THEN 150 ELSE 0 - 15)
                   + (IF MetricsOf(e) # <<>> THEN 100 ELSE 0 - 15)
                   + (IF r.risks = <<>> THEN 5 ELSE 0)
        IN  /\ r.critique_score = IF sum < 0 THEN 0
                                  ELSE IF sum > 1000 THEN 1000 ELSE sum
            /\ (MethodsOf(e) # <<>> /\ MetricsOf(e) # <<>> /\ ~SmallSample(e)) =>
                  r.critique_score >= 750 /\ r.critique_score <= 1000

\* The fallback has scored a proposal without methods, with metrics, for a
\* small-sample dataset: 0.5 - 0.015 + 0.10 + 0.
C13_Witness ==
    /\ FallbackReturned
    /\ MethodsOf(call.experiment_result) = <<>>
    /\ MetricsOf(call.experiment_result) # <<>>
    /\ SmallSample(call.experiment_result)
    /\ call.result.value.critique_score = 585

\* C14: the fallback's iterate is true exactly when its weaknesses or its
\* risks are non-empty or its score is below 0.8, and it is true whenever
\* the metrics list is empty.
C14_FallbackIterate ==
    FallbackReturned =>
        LET r == call.result.value
        IN  /\ r.iterate = (r.weaknesses # <<>> \/ r.risks # <<>>
                            \/ r.critique_score < 800)
            /\ MetricsOf(call.experiment_result) = <<>> => r.iterate

\* The fallback has judged a proposal with methods and a toolkit but no
\* metrics, for a dataset of 12 images.
C14_Witness ==
    /\ FallbackReturned
    /\ MetricsOf(call.experiment_result) = <<>>
    /\ MethodsOf(call.experiment_result) # <<>>
    /\ ~SmallSample(call.experiment_result)
    /\ call.result.value.iterate
    /\ call.result.value.risks = <<"no quantitative evaluation">>

\* C15: for the domain {name: "Test Domain", description: "x"} and an empty
\* dataset list, design_experiment returns a result whose
\* experiment_proposal is no error record, whatever the capability answers,
\* and the fallback critique of that result lists the no-datasets weakness
\* and no strength.
C15_EmptyScenario ==
    (call.fn = "design_experiment" /\ call.returned
     /\ call.result.kind = "return") =>
        /\ "error" \notin DOMAIN call.result.value.experiment_proposal
        /\ "critique" \in DOMAIN call =>
              /\ call.critique.kind = "return"
              /\ \E n \in 1..Len(call.critique.value.weaknesses) :
                    call.critique.value.weaknesses[n]
                        = "No datasets available for analysis."
              /\ call.critique.value.strengths = <<>>

\* When design_experiment returns in that scenario, the fallback critique of
\* its result lists the no-datasets weakness, and no strength unless the
\* proposal has methods, metrics or a toolkit.
EmptyScenarioCritique ==
    (call.fn = "design_experiment" /\ "critique" \in DOMAIN call) =>
        /\ call.critique.kind = "return"
        /\ call.critique.value.weaknesses[1] = "No datasets available for analysis."
        /\ "error" \in DOMAIN call.result.value.experiment_proposal =>
              call.critique.value.strengths = <<>>

----------------------------------------------------------------------------
\* Properties of the normalization

\* C16: normalizing what a normalization returned returns the same value,
\* for each of the five parameters and every input shape.
C16_NormalizeIdempotent ==
    (call.fn = "normalize" /\ "again" \in DOMAIN call) =>
        call.again = call.result

\* C17: the normalization never fails; it makes the dataset info a dict with
\* a metadata key, the experiment result a dict with experiment_proposal and
\* dataset_analysis keys, the questions a list and the domain descriptor a
\* dict.
C17_NormalizedShapes ==
    (call.fn = "normalize" /\ call.returned) =>
        /\ call.result.kind = "return"
        /\ LET v == call.result.value
           IN  CASE call.field = "domain_info" -> IsDict(v)
                 [] call.field = "questions" -> IsPyList(v)
                 [] call.field = "data_info" ->
                        IsDict(v) /\ "metadata" \in DOMAIN v
                 [] call.field = "experiment_results" ->
                        /\ IsDict(v)
                        /\ {"experiment_proposal", "dataset_analysis"} \subseteq DOMAIN v
                 [] OTHER -> TRUE

\* On a value that is no str, and on a str that is no JSON, C16 and C17
\* hold.
NormalizeUnparsed ==
    (call.fn = "normalize" /\ call.returned
     /\ (IsStr(call.value) => ~call.value.py_str.json)) =>
        /\ C17_NormalizedShapes
        /\ "again" \in DOMAIN call => call.again = call.result

----------------------------------------------------------------------------
\* Properties of MemoryManager

\* C18: right after add(k, v), for v a tree of primitives, lists and
\* string-keyed mappings, get(k) is equal to v; and so it is after a
\* restart that follows the add, the add having written the file and the
\* new MemoryManager having read it.
C18_RoundTrip ==
    /\ (call.fn = "add" /\ call.value \in JsonTrees) =>
          get(structured_memory, call.key) = call.value
    /\ (call.fn = "restart" /\ call.after = "add" /\ call.value \in JsonTrees
        /\ call.saved /\ call.loaded) =>
          get(structured_memory, call.key) = call.value

\* The store was restarted after the add of a nested mapping and holds it.
C18_Witness ==
    /\ call.fn = "restart"
    /\ call.after = "add"
    /\ call.saved
    /\ call.loaded
    /\ "datasets" \in DOMAIN call.value
    /\ get(structured_memory, call.key) = call.value

\* C19: add(k, v2) on a store that holds k leaves one entry for k, with
\* value v2, and every other key with the value it had, in the mapping in
\* memory and, the write having succeeded, in the mapping of the file; the
\* entries of the file that the add before had written are unchanged too.
C19_Overwrite ==
    (call.fn = "add" /\ call.key \in DOMAIN call.memory_before) =>
        /\ DOMAIN structured_memory = DOMAIN call.memory_before
        /\ structured_memory[call.key] = call.value
        /\ \A j \in DOMAIN call.memory_before \ {call.key} :
              structured_memory[j] = call.memory_before[j]
        /\ call.saved =>
              /\ memory_file.exists
              /\ DOMAIN memory_file.content = DOMAIN call.memory_before
              /\ memory_file.content[call.key] = json_tree(call.value)
              /\ \A j \in DOMAIN call.memory_before \ {call.key} :
                    memory_file.content[j] = json_tree(call.memory_before[j])
        /\ (/\ call.saved
            /\ call.file_before.exists
            /\ call.file_before.content = json_tree(call.memory_before)) =>
              \A j \in DOMAIN call.memory_before \ {call.key} :
                  memory_file.content[j] = call.file_before.content[j]

\* A second add of a key replaced its value in a store of two keys, and
\* both adds were written.
C19_Witness ==
    /\ call.fn = "add"
    /\ call.saved
    /\ DOMAIN call.memory_before = StoreKeys
    /\ call.memory_before[call.key] # call.value
    /\ call.file_before.exists
    /\ call.file_before.content = json_tree(call.memory_before)
    /\ structured_memory[call.key] = call.value
    /\ memory_file.content[call.key] = call.value

\* The stage _run_once runs after the one that stores under key.
StageAfter(key) ==
    CASE key = "domain" -> "questions"
      [] key = "questions" -> "data"
      [] key = "data" -> "experiment"
      [] key = "experiment" -> "critique"
      [] key = "critique" -> "paper"
      [] OTHER -> "none"

\* The step ran a stage up to its memory.add.
StageAdded ==
    /\ Len(log') > Len(log)
    /\ log'[Len(log')][1] = "add"

\* C20: a stage's memory.add(k, v) leaves v under k in memory and the file
\* either written with the whole mapping or, the write having failed, as
\* it was; and after a failed write the pipeline is at its next step: the
\* next stage, or the iteration's success record after the last stage.
C20_SaveFailureNotFatal ==
    [][ StageAdded =>
          LET k == log'[Len(log')][2]
              written == [exists |-> TRUE, content |-> structured_memory']
          IN  /\ k \in DOMAIN structured_memory'
              /\ SummaryKey(k) \in DOMAIN summary' =>
                    structured_memory'[k] = summary'[SummaryKey(k)]
              /\ k = "paper" =>
                    structured_memory'[k] =
                        run_summary'.results[Len(run_summary'.results)].paper
              /\ memory_file' \in {written, memory_file}
              /\ memory_file' # written =>
                    /\ k = "paper" =>
                          run_summary'.results[Len(run_summary'.results)].status
                              = "success"
                    /\ (k # "paper"
                        /\ "description" \in DOMAIN structured_memory'["domain"]) =>
                          pc' = StageAfter(k)
    ]_vars

\* The write of the first add failed and the pipeline is two stages on:
\* the store holds what the file does not.
C20_Witness ==
    /\ pc = "data"
    /\ ~memory_file.exists
    /\ DOMAIN structured_memory = {"domain", "questions"}
    /\ structured_memory["questions"] = summary["questions"]

\* C21: a MemoryManager constructed over whatever file is found holds the
\* mapping of the file or the empty mapping, and get(k, d) on it returns,
\* with d for a key it does not hold.
C21_LoadNeverFatal ==
    call.fn \in {"__init__", "get"} =>
        /\ IsDict(structured_memory)
        /\ \/ structured_memory = EmptyDict
           \/ memory_file.exists /\ structured_memory = memory_file.content
        /\ call.fn = "get" =>
              /\ call.result.kind = "return"
              /\ call.key \notin DOMAIN structured_memory =>
                    call.result.value = call.default

\* Over a file that is absent, unreadable, no JSON or a JSON mapping, the
\* store is a mapping and get returns, with the default for an absent key.
LoadOfMappingOrNothing ==
    (/\ call.fn \in {"__init__", "get"}
     /\ memory_file.exists => IsDict(memory_file.content)) =>
        /\ IsDict(structured_memory)
        /\ call.fn = "get" =>
              /\ call.result.kind = "return"
              /\ call.key \notin DOMAIN structured_memory =>
                    call.result.value = call.default

\* C22: the mapping obtained from get_all holds after a later add what it
\* held before it, and after the caller has modified that mapping get
\* returns for every key what it returned before.
C22_GetAllSnapshot ==
    /\ (call.held /\ call.fn = "add") =>
          Deref(call.result, structured_memory) = call.seen
    /\ call.fn = "modify" =>
          \A k \in StoreKeys :
              get(structured_memory, k) = get(call.store_before, k)

\* C23: whatever record a stage hands over, and whether the note is
\* stored, add_texts fails or there is no vector store, the statements that
\* store the record complete, as they do when the note is stored: the
\* record is in the store and the iteration goes on.
C23_SemanticPathNotRequired ==
    (call.fn = "store" /\ call.returned) =>
        /\ call.result.kind = "return"
        /\ structured_memory[call.stage] = call.value

\* For the records the note's text can be taken from, the statements
\* complete whatever the vector store does.
SemanticFailuresSwallowed ==
    (/\ call.fn = "store"
     /\ call.returned
     /\ call.stage = "domain" => "description" \in DOMAIN call.value) =>
        /\ call.result.kind = "return"
        /\ structured_memory[call.stage] = call.value
        /\ Len(call.notes) = IF call.vectorstore /\ call.ok THEN 1 ELSE 0

\* A step of an iteration leaves the records of its earlier stages alone.
KeptByStep ==
    pc \in StageSet =>
        \A s \in StageSet :
            SummaryKey(s) \in DOMAIN summary =>
                /\ structured_memory'[s] = summary[SummaryKey(s)]
                /\ SummaryKey(s) \in DOMAIN summary' =>
                      summary'[SummaryKey(s)] = summary[SummaryKey(s)]
                /\ (pc = "paper" /\ Len(run_summary'.results) > Len(run_summary.results)) =>
                      run_summary'.results[Len(run_summary'.results)][SummaryKey(s)]
                          = summary[SummaryKey(s)]

\* C24: a step of an iteration leaves every record that an earlier stage
\* of the iteration produced as it was: under its key in the store, in
\* summary, and in the iteration's record of run_summary once appended.
C24_RecordsNotMutated == [][KeptByStep]_vars

\* A stage before generate_paper leaves the earlier records as they were.
KeptByStage ==
    (pc \in StageSet /\ pc # "paper") =>
        \A s \in StageSet :
            SummaryKey(s) \in DOMAIN summary =>
                /\ structured_memory'[s] = summary[SummaryKey(s)]
                /\ SummaryKey(s) \in DOMAIN summary' =>
                      summary'[SummaryKey(s)] = summary[SummaryKey(s)]

RecordsKeptBeforePaper == [][KeptByStage]_vars

\* C28: the critique_score of the record critique returns is between 0
\* and 1 (0 and 1000 thousandths).
C28_ScoreInUnitInterval ==
    (call.fn = "critique" /\ call.returned) =>
        /\ call.result.critique_score >= 0
        /\ call.result.critique_score <= 1000

\* The score of the fallback and of the minimal record is between 0 and 1.
LocalScoreInUnitInterval ==
    (/\ call.fn = "critique"
     /\ call.returned
     /\ ~Primary(llm, call.response, call.experiment_result)) =>
        /\ call.result.critique_score >= 0
        /\ call.result.critique_score <= 1000

----------------------------------------------------------------------------
\* Properties of design_experiment's trace

\* design_experiment has returned or raised.
DesignDone == call.fn = "design_experiment" /\ call.returned

\* The positions of the trace that hold what.
Positions(trace, what) == {n \in 1..Len(trace) : trace[n] = what}

\* The chart specification of the proposal has labels and values.
PrimaryUsable(proposal) ==
    /\ "visualization_to_generate" \in DOMAIN proposal
    /\ proposal.visualization_to_generate.data.labels # <<>>
    /\ proposal.visualization_to_generate.data.values # <<>>

\* C26: the synthetic dataset is requested only after the proposal, only
\* before the chart is drawn, and only when the proposal's chart
\* specification lacks labels or values; the placeholder is written only
\* after a failed drawing, when no chart was written.
C26_VisualizationTiers ==
    DesignDone =>
        LET t == call.result.trace
            drawn == Positions(t, "render") \cup Positions(t, "render failed")
        IN  /\ \A c \in Positions(t, "remote:contextual") :
                  /\ \A p \in Positions(t, "remote:proposal") : p < c
                  /\ \A r \in drawn : c < r
                  /\ call.result.kind = "return" =>
                        ~PrimaryUsable(call.result.value.experiment_proposal)
            /\ \A h \in Positions(t, "placeholder") \cup Positions(t, "placeholder failed") :
                  /\ Positions(t, "render") = {}
                  /\ Positions(t, "render failed") # {}
                  /\ \A r \in drawn : r < h

\* The proposal had no usable chart, the synthetic dataset was requested,
\* its drawing failed and the placeholder was written.
C26_Witness ==
    /\ DesignDone
    /\ call.result.kind = "return"
    /\ ~PrimaryUsable(call.result.value.experiment_proposal)
    /\ call.result.trace = <<"remote:proposal", "remote:contextual",
                             "render failed", "placeholder">>
    /\ call.result.value.visualization_path = DefaultChart

\* C27: in one call of design_experiment the proposal is requested at most
\* once and the synthetic dataset is requested at most once.
C27_SingleShot ==
    DesignDone =>
        /\ Cardinality(Positions(call.result.trace, "remote:proposal")) <= 1
        /\ Cardinality(Positions(call.result.trace, "remote:contextual")) <= 1

\* When the proposal carries a chart specification, each request is made
\* at most once.
SingleShotWithChartSpec ==
    (/\ DesignDone
     /\ call.result.kind = "return"
     /\ "visualization_to_generate" \in DOMAIN call.result.value.experiment_proposal) =>
        /\ Cardinality(Positions(call.result.trace, "remote:proposal")) <= 1
        /\ Cardinality(Positions(call.result.trace, "remote:contextual")) <= 1

----------------------------------------------------------------------------
\* Properties of generate_paper

\* A success record with both paths, or an error record with its message.
PaperShape(paper) ==
    /\ "status" \in DOMAIN paper
    /\ \/ paper.status = "success" /\ {"markdown", "html"} \subseteq DOMAIN paper
       \/ paper.status = "error" /\ "error" \in DOMAIN paper

\* C29: generate_paper returns whatever its arguments are and whether or
\* not the paper is written, and the record stored under paper is a success
\* record with both paths or an error record with a message.
C29_PaperRecordShape ==
    (call.fn = "generate_paper" /\ call.returned) =>
        /\ call.result.kind = "return"
        /\ PaperShape(structured_memory["paper"])
        /\ structured_memory["paper"].status = "success" <=>
              /\ call.written
              /\ \A f \in Fields : normalize(f, call.args[f]).kind = "return"

\* The normalization raised on a data_info that is the text of a JSON list,
\* and the error record was stored.
C29_Witness ==
    /\ call.fn = "generate_paper"
    /\ call.returned
    /\ call.args["data_info"] = Str(PyList(<<>>))
    /\ call.result.kind = "return"
    /\ structured_memory["paper"].status = "error"
    /\ "error" \in DOMAIN structured_memory["paper"]

----------------------------------------------------------------------------
\* Properties of the dashboard

\* C25: once a run has deleted or written a file, no run started before it
\* writes any more: the deletions and writes are in the order of the runs.
C25_OneWriterAtATime ==
    call.fn = "app" =>
        \A m, n \in 1..Len(call.writes) :
            m < n => call.writes[m][2] <= call.writes[n][2]

\* As long as no run is abandoned, the writes are in the order of the runs.
OneWriterWhenNoneAbandoned ==
    (/\ call.fn = "app"
     /\ \A r \in 1..Len(call.ended) : call.ended[r] = "completed") =>
        \A m, n \in 1..Len(call.writes) :
            m < n => call.writes[m][2] <= call.writes[n][2]

----------------------------------------------------------------------------
\* Properties of the arguments of the stages

----------------------------------------------------------------------------
\* Properties of generate_questions

\* The records the questions stage has stored.
QuestionRecords ==
    IF "questions" \in DOMAIN structured_memory
    THEN {structured_memory["questions"]} ELSE {}

\* C31: the questions stage never raises, and what generate_questions
\* returns is a list; when the domain record has no domain_name the list
\* holds exactly one record, which carries an error.
C31_QuestionsAreASequence ==
    /\ \A n \in 1..Len(log) : log[n][2] = "questions" => log[n][1] # "raise"
    /\ \A q \in QuestionRecords :
          /\ IsPyList(q)
          /\ "domain_name" \notin DOMAIN structured_memory["domain"] =>
                /\ Len(q.py_list) = 1
                /\ "error" \in DOMAIN q.py_list[1]

\* What generate_questions returns is a list, or a single mapping that
\* carries an error.
QuestionsListOrErrorMapping ==
    \A q \in QuestionRecords :
        \/ IsPyList(q)
        \/ IsDict(q) /\ "error" \in DOMAIN q

----------------------------------------------------------------------------
\* Properties of the fallback critique's lists

\* The fallback critiques returned, by a direct call or through critique,
\* each with the experiment result it was made for.
FallbackCritiques ==
    (IF FallbackReturned
     THEN {<<call.experiment_result, call.result.value>>} ELSE {})
    \cup
    (IF /\ call.fn = "critique"
        /\ call.returned
        /\ ~Primary(llm, call.response, call.experiment_result)
        /\ ~HeuristicRaises(call.experiment_result)
     THEN {<<call.experiment_result, call.result>>} ELSE {})

Has(list, x) == \E n \in 1..Len(list) : list[n] = x

\* C32: the recommended_fixes of a fallback critique is non-empty and ends
\* with the control/baseline fix; it holds the measurable-metrics fix
\* exactly when the proposal's metrics list is empty, and the
\* aggregate-or-augment fix exactly when the small-sample risk is among the
\* record's risks.
C32_RecommendedFixes ==
    \A c \in FallbackCritiques :
        LET f == c[2].recommended_fixes
        IN  /\ f # <<>>
            /\ f[Len(f)] = "add a control group or baseline"
            /\ Has(f, "define measurable metrics") <=> MetricsOf(c[1]) = <<>>
            /\ Has(f, "aggregate or augment") <=> Has(c[2].risks, "small sample size")

\* A fallback critique made for a proposal without metrics and a dataset of
\* 5 images lists the three fixes, the control/baseline fix last.
C32_Witness ==
    /\ FallbackReturned
    /\ MetricsOf(call.experiment_result) = <<>>
    /\ SmallSample(call.experiment_result)
    /\ call.result.value.recommended_fixes
          = <<"define measurable metrics", "aggregate or augment",
              "add a control group or baseline">>

----------------------------------------------------------------------------
\* Properties of the semantic notes

\* C33: query(text, k) returns at most k notes, each a text add_summary was
\* called with before; without a vector store, or when the lookup fails,
\* it returns the empty list.
C33_QueryReturnsStoredNotes ==
    (call.fn = "notes" /\ call.queried) =>
        /\ Len(call.result) <= call.k
        /\ \A n \in 1..Len(call.result) : Has(call.added, call.result[n])
        /\ (~call.vectorstore \/ ~call.ok) => call.result = <<>>

\* query returns at most k texts, each one add_summary was called with or
\* the text the store was made with, and the empty list without a store or
\* on a failed lookup.
QueryReturnsStoredOrInitialNotes ==
    (call.fn = "notes" /\ call.queried) =>
        /\ Len(call.result) <= call.k
        /\ \A n \in 1..Len(call.result) :
              \/ Has(call.added, call.result[n])
              \/ call.result[n] = "Memory initialized."
        /\ (~call.vectorstore \/ ~call.ok) => call.result = <<>>

----------------------------------------------------------------------------
\* Properties of the dataset analysis in the pipeline

\* The critiques of the fallback that the store holds.
StoredFallbackCritiques ==
    IF /\ "critique" \in DOMAIN structured_memory
       /\ Get(structured_memory["critique"], "suggested_next_steps", <<>>)
             = <<"run EDA", "baseline model", "augment">>
    THEN {structured_memory["critique"]} ELSE {}

\* C34: in the pipeline the dataset_analysis of every experiment record is
\* empty, whatever find_data found, and every critique of the fallback
\* lists the no-datasets weakness and not the small-sample risk.
C34_EmptyDatasetAnalysis ==
    /\ "experiment" \in DOMAIN structured_memory =>
          Get(structured_memory["experiment"], "dataset_analysis", <<>>) = <<>>
    /\ \A c \in StoredFallbackCritiques :
          /\ Has(c.weaknesses, "No datasets available for analysis.")
          /\ ~Has(c.risks, "small sample size")

\* find_data found a dataset, design_experiment returned a record, and the
\* fallback's critique of it is in the store.
C34_Witness ==
    /\ pc = "paper"
    /\ Get(structured_memory["data"], "status", "") = "success"
    /\ Get(structured_memory["data"], "datasets_found", 0) = 1
    /\ "dataset_analysis" \in DOMAIN structured_memory["experiment"]
    /\ StoredFallbackCritiques # {}
    /\ \A c \in StoredFallbackCritiques :
          Has(c.weaknesses, "No datasets available for analysis.")

----------------------------------------------------------------------------
\* Properties of the fallback critique's score range

\* C35: every critique of the fallback has iterate true, and its score is
\* at least 0.47 and at most 0.755, below the threshold 0.8.
C35_FallbackAlwaysIterates ==
    \A c \in FallbackCritiques :
        /\ c[2].iterate
        /\ c[2].critique_score >= 470
        /\ c[2].critique_score <= 755
        /\ c[2].critique_score < 800

\* The fallback has judged a proposal with methods, metrics and a toolkit
\* for a dataset of 12 images: no weakness, no risk, score 0.755, and
\* iterate true.
C35_Witness ==
    /\ FallbackReturned
    /\ call.result.value.weaknesses = <<>>
    /\ call.result.value.risks = <<>>
    /\ call.result.value.critique_score = 755
    /\ call.result.value.iterate

----------------------------------------------------------------------------
\* Properties of a domain record without description

\* C36: when the domain record just stored in iteration k has no
\* description, iteration k is already recorded as failed; and in an
\* iteration that failed on the missing description the domain record was
\* stored and no stage other than DomainDiscovery was called.
C36_DomainWithoutDescription ==
    /\ (/\ log # <<>>
        /\ log[Len(log)][1] = "add"
        /\ log[Len(log)][2] = "domain"
        /\ "description" \notin DOMAIN structured_memory["domain"]) =>
           LET k == log[Len(log)][3]
           IN  /\ Len(Results) = k
               /\ Results[k].status = "failed"
               /\ pc \notin StageSet \ {"domain"}
    /\ \A n \in 1..Len(Results) :
          (Results[n].status = "failed" /\ Results[n].error = "'description'") =>
              /\ Has(log, <<"add", "domain", n>>)
              /\ \A m \in 1..Len(log) :
                    (log[m][3] = n /\ log[m][2] \in StageSet) => log[m][2] = "domain"

\* The first iteration got DomainDiscovery's parse-failure record: the
\* store holds it, the iteration is recorded as failed, and the second
\* iteration is about to start.
C36_Witness ==
    /\ pc = "domain"
    /\ i = 1
    /\ structured_memory = [domain |-> DomainParseFailure]
    /\ Statuses = <<"failed">>
    /\ Results[1].error = "'description'"
    /\ log = <<<<"call", "domain", 1>>, <<"return", "domain", 1>>,
               <<"add", "domain", 1>>>>

----------------------------------------------------------------------------
\* Properties of the store across iterations

\* A step in which run_cycle records an iteration as failed.
IterationFails ==
    /\ Len(run_summary'.results) = Len(Results) + 1
    /\ run_summary'.results[Len(Results) + 1].status = "failed"

\* In a step that records an iteration as failed every entry of the store
\* stays, with its value, but for the domain record stored in that step.
KeptOnFailure ==
    IterationFails =>
        \A k \in DOMAIN structured_memory :
            /\ k \in DOMAIN structured_memory'
            /\ \/ structured_memory'[k] = structured_memory[k]
               \/ /\ k = "domain"
                  /\ log'[Len(log')] = <<"add", "domain", i + 1>>

\* C37: when an iteration fails nothing is rolled back: the entries written
\* in that iteration and the entries of the stages that did not run, left
\* by an earlier iteration or loaded at construction, are all kept.
C37_NoRollback == [][KeptOnFailure]_vars

\* The second iteration failed after storing a domain record without
\* description: the store holds that record, the five other records of the
\* first iteration, and nothing of the file loaded at construction.
C37_Witness ==
    /\ Statuses = <<"success", "failed">>
    /\ structured_memory["domain"] = DomainParseFailure
    /\ Results[1].domain # structured_memory["domain"]
    /\ structured_memory["questions"] = Results[1].questions
    /\ structured_memory["critique"] = Results[1].critique
    /\ structured_memory["paper"] = Results[1].paper
    /\ structured_memory["paper"] # PreviousStore["paper"]

\* The first iteration failed after storing a domain record without
\* description: the five other records are those loaded at construction.
LoadedKeptOnFailure ==
    /\ Statuses = <<"failed">>
    /\ structured_memory["domain"] = DomainParseFailure
    /\ \A k \in DOMAIN PreviousStore \ {"domain"} :
          structured_memory[k] = PreviousStore[k]


\* The last iteration that wrote the key, 0 when none did.
LastWriter(k) ==
    LET adds == SelectSeq(log, LAMBDA e : e[1] = "add" /\ e[2] = k)
    IN  IF adds = <<>> THEN 0 ELSE adds[Len(adds)][3]

\* C38: when generate_paper is about to be called in an iteration, each of
\* the five records it gets from the store was written in that iteration
\* and is the value the stage of that iteration produced, not a record of
\* an earlier iteration or of the file loaded at construction.
C38_PaperReadsThisIteration ==
    pc = "paper" =>
        \A k \in InputKeys("paper") :
            /\ FromStore("paper")
            /\ LastWriter(k) = i + 1
            /\ argument("paper", k, summary, structured_memory)
                  = summary[SummaryKey(k)]
            /\ argument("paper", k, summary, structured_memory) # PreviousStore[k]

\* generate_paper is about to be called in the second iteration, whose
\* experiment and critique records differ from those of the first.
C38_Witness ==
    /\ pc = "paper"
    /\ i = 1
    /\ Statuses = <<"success">>
    /\ argument("paper", "experiment", summary, structured_memory)
          # Results[1].experiment_results
    /\ argument("paper", "critique", summary, structured_memory)
          # Results[1].critique
    /\ LastWriter("critique") = 2

----------------------------------------------------------------------------
\* Properties of critique when the fallback raises

\* C39: when critique falls back and the fallback raises, critique returns
\* the minimal record: the eight fields, critique_score 0.0, iterate true,
\* no strength, and the weakness that reports the failure.
C39_MinimalRecord ==
    (/\ call.fn = "critique"
     /\ call.returned
     /\ ~Primary(llm, call.response, call.experiment_result)
     /\ _heuristic_critique(call.experiment_result).kind = "raise") =>
        /\ DOMAIN call.result = CritiqueFields
        /\ call.result.critique_score = 0
        /\ call.result.iterate
        /\ call.result.strengths = <<>>
        /\ call.result.weaknesses = <<"Critic agent failed unexpectedly.">>

\* critique was called without the remote capability on a result whose
\* second dataset entry is a list, and returned the minimal record.
C39_Witness ==
    /\ call.fn = "critique"
    /\ call.returned
    /\ ~llm
    /\ call.experiment_result
          = [dataset_analysis |-> <<DatasetSummary(12), PyList(<<"d">>)>>,
             experiment_proposal |-> ProposalFull]
    /\ call.result.critique_score = 0
    /\ call.result.weaknesses = <<"Critic agent failed unexpectedly.">>

\* An entry that is no mapping and stands behind a dataset of fewer than 10
\* images, or behind a tool named PyTorch, does not make the fallback raise.
EntriesNotReached ==
    (/\ call.fn = "_heuristic_critique"
     /\ call.returned
     /\ \/ Get(call.experiment_result, "dataset_analysis", <<>>)
              = <<DatasetSummary(5), PyList(<<"d">>)>>
        \/ Get(DesignOf(call.experiment_result), "tools", <<>>)
              = <<[name |-> "PyTorch"], PyInt(7)>>) =>
        call.result.kind = "return"

====
